---- MODULE Spec2Model ----
(***************************************************************************)
(* A model of simple_lisp (src/simple_lisp.cpp): the one-pass compiler     *)
(* from a token stream to two-byte instructions, and the stack VM that     *)
(* executes them, with its call frames, natives and coroutines.            *)
(*                                                                         *)
(* Numbers are floats in the source and integers here; a code pointer is   *)
(* an instruction index (the source advances it two bytes at a time).      *)
(* Table indices are 0-based as in the source; a TLA+ sequence holding a   *)
(* table is 1-based, so entry i of a table T is T[i + 1].                  *)
(***************************************************************************)
EXTENDS Integers, Sequences, FiniteSets, TLC

VARIABLES
    prog,           \* the source program given to CompileScript (never changes)
    Script,         \* sl_script: Strings, Numbers, Funcs, Code
    Globals,        \* sl_vm::Globals
    Stack,          \* sl_vm::Stack[0 .. StackTop-1]
    Frames,         \* every sl_call_frame allocated so far (a deleted one keeps its id)
    CurrentFrame,   \* sl_vm::CurrentFrame (0 is NULL)
    Coroutines,     \* every sl_coroutine allocated so far
    RefCount,       \* sl_ref::RefCount of the Script strings used as literals
    acts,           \* the C call stack: one entry per live activation of Execute
    status,         \* "running", "exited" (main returned) or "undefined"
    printed,        \* the lines written to stdout by the natives
    halted,         \* history: some activation has dispatched Halt
    last,           \* history: the instruction dispatched by the last step
    returned,       \* history: the activation that ended in the last step
    Lexer,          \* sl_lexer while CompileScript runs: Source, Ptr, TokenType
    Parser,         \* the C call stack of CompileScript: the loops and calls entered
    interned,       \* history: the AddString and AddNumber calls made, with their results
    StringPool      \* Vm->StringPool: its entries, live list, free list, and objects

vars == <<prog, Script, Globals, Stack, Frames, CurrentFrame, Coroutines,
          RefCount, acts, status, printed, halted, last, returned,
          Lexer, Parser, interned, StringPool>>

(***************************************************************************)
(* Bounds of the model.                                                    *)
(***************************************************************************)
MaxYields == 3
MaxExtraCalls == 2
MaxGarbage == 1
MaxParams == 2
MaxCallArgs == 2
MaxInternCalls == 4
MaxSourceLen == 3
MaxCode == 8
MaxDepth == 4
MaxDefunParams == 9

(***************************************************************************)
(* Tokens (sl_token_type and the lexer's current-token view).              *)
(***************************************************************************)
Tok(t, s, n) == [type |-> t, str |-> s, num |-> n]
TokenEOF == Tok("EOF", "", 0)
LParen == Tok("LeftParen", "", 0)
RParen == Tok("RightParen", "", 0)
LBracket == Tok("LeftBracket", "", 0)
RBracket == Tok("RightBracket", "", 0)
Hash == Tok("Hash", "", 0)
Str(s) == Tok("String", s, 0)
Num(n) == Tok("Number", "", n)
Sym(s) == Tok("Symbol", s, 0)

(***************************************************************************)
(* The compiler.  A compiler state L holds the lexer (toks, pos) and the   *)
(* script tables being built; code buffers are passed and returned.        *)
(***************************************************************************)
CurTok(L) == IF L.pos > Len(L.toks) THEN TokenEOF ELSE L.toks[L.pos]

\* NextToken at token granularity: at EOF the lexer stays at EOF.
NextToken(L) == IF L.pos > Len(L.toks) THEN L ELSE [L EXCEPT !.pos = @ + 1]

\* An AddString that never looks for an equal entry.
AddStringAppend(L, Value) ==
    [L |-> [L EXCEPT !.Strings = Append(@, Value)], idx |-> Len(L.Strings)]

\* AddString: the index of the first equal entry, else append.
AddString(L, Value) ==
    IF \E i \in 1..Len(L.Strings) : L.Strings[i] = Value
    THEN [L |-> L,
          idx |-> (CHOOSE i \in 1..Len(L.Strings) :
                      /\ L.Strings[i] = Value
                      /\ \A j \in 1..(i - 1) : L.Strings[j] # Value) - 1]
    ELSE [L |-> [L EXCEPT !.Strings = Append(@, Value)],
          idx |-> Len(L.Strings)]

\* AddNumber: the same over Numbers, by ==.
AddNumber(L, Value) ==
    IF \E i \in 1..Len(L.Numbers) : L.Numbers[i] = Value
    THEN [L |-> L,
          idx |-> (CHOOSE i \in 1..Len(L.Numbers) :
                      /\ L.Numbers[i] = Value
                      /\ \A j \in 1..(i - 1) : L.Numbers[j] # Value) - 1]
    ELSE [L |-> [L EXCEPT !.Numbers = Append(@, Value)],
          idx |-> Len(L.Numbers)]

\* The number of values of a uint8 operand.
ByteRange == 256

\* Emit: one instruction; the operand is narrowed to uint8.
Emit(Code, OpCode, Arg) == Append(Code, [op |-> OpCode, arg |-> Arg % 256])

\* ArgCount of a function whose ArgCount field was never written (new sl_func).
Indeterminate == -1

\* #define FuncMaxArgs 8: the length of the array sl_func::Args.
FuncMaxArgs == 8

IsReserved(s) == s \in {"defonce", "defun", "def", "set"}

RECURSIVE ParseExpr(_, _, _)
RECURSIVE ParseCallArgs(_, _, _)
RECURSIVE ParseBody(_, _)
RECURSIVE ParseArgNames(_, _)

\* AddDefOp: intern the name, compile the value expression, emit the op.
AddDefOp(L, Code, OpCode) ==
    LET a == AddString(L, CurTok(L).str)
        e == ParseExpr(NextToken(a.L), Code, FALSE)
    IN  [L |-> NextToken(e.L), Code |-> Emit(e.Code, OpCode, a.idx)]

\* The loop of defun over the formal parameters: Args[ArgIndex] = AddString(...).
ParseArgNames(L, Args) ==
    IF CurTok(L).type = "Symbol"
    THEN LET a == AddString(L, CurTok(L).str)
         IN  ParseArgNames(NextToken(a.L), Append(Args, a.idx))
    ELSE [L |-> L, Args |-> Args]

\* A prologue that emits the Defs in the order of the parameters.
EmitArgDefsForward(Args) ==
    [i \in 1..Len(Args) |-> [op |-> "Def", arg |-> Args[i] % 256]]

\* for (i = ArgIndex-1; i >= 0; --i) Emit(&Func->Code, OpCode_Def, Func->Args[i])
EmitArgDefs(Args) ==
    [i \in 1..Len(Args) |-> [op |-> "Def", arg |-> Args[Len(Args) + 1 - i] % 256]]

\* while (TokenType != RightParen) ParseExpr(Script, &Func->Code, Lexer, true)
ParseBody(L, Code) ==
    IF CurTok(L).type = "RightParen"
    THEN [L |-> L, Code |-> Code]
    ELSE LET e == ParseExpr(L, Code, TRUE) IN ParseBody(e.L, e.Code)

\* ParseReserved, entered with the reserved head symbol as the current token.
ParseReserved(L, Code) ==
    LET head == CurTok(L).str
        L1 == NextToken(L)
    IN  IF CurTok(L1).type # "Symbol"
        THEN [L |-> L1, Code |-> Code]       \* "expecting symbol": the form is dropped
        ELSE IF head = "defonce" THEN AddDefOp(L1, Code, "Defonce")
        ELSE IF head = "def" THEN AddDefOp(L1, Code, "Def")
        ELSE IF head = "set" THEN AddDefOp(L1, Code, "Set")
        ELSE \* defun
            LET n == AddString(L1, CurTok(L1).str)
                L2 == NextToken(n.L)
                hasArgs == CurTok(L2).type = "LeftBracket"
                p == IF hasArgs THEN ParseArgNames(NextToken(L2), <<>>)
                     ELSE [L |-> L2, Args |-> <<>>]
                L3 == IF hasArgs THEN NextToken(p.L) ELSE L2
                b == ParseBody(L3, IF hasArgs THEN EmitArgDefs(p.Args) ELSE <<>>)
                Func == [Code |-> Emit(b.Code, "Return", 0),
                         StringIndex |-> n.idx,
                         ArgCount |-> IF hasArgs THEN Len(p.Args) ELSE Indeterminate,
                         Args |-> p.Args]
                L4 == NextToken(b.L)
                L5 == [L4 EXCEPT !.Funcs = Append(@, Func)]
            IN  [L |-> L5, Code |-> Emit(Code, "Defun", Len(L5.Funcs) - 1)]

\* The loop of a call form: every sub-expression in expression context.
ParseCallArgs(L, Code, ArgCount) ==
    IF CurTok(L).type = "RightParen"
    THEN [L |-> L, Code |-> Code, ArgCount |-> ArgCount]
    ELSE LET e == ParseExpr(L, Code, FALSE)
         IN  ParseCallArgs(e.L, e.Code, ArgCount + 1)

PopIf(PopUnused, r) ==
    IF PopUnused THEN [L |-> r.L, Code |-> Emit(r.Code, "Pop", 0)] ELSE r

ParseExpr(L, Code, PopUnused) ==
    LET t == CurTok(L) IN
    CASE t.type = "LeftParen" ->
            LET L1 == NextToken(L) IN
            IF CurTok(L1).type = "Symbol" /\ IsReserved(CurTok(L1).str)
            THEN ParseReserved(L1, Code)     \* returns before the trailing Pop
            ELSE LET c == ParseCallArgs(L1, Code, 0)
                     code2 == IF c.ArgCount > 0
                              THEN Emit(c.Code, "FuncCall", (c.ArgCount % 256) - 1)
                              ELSE c.Code
                 IN  PopIf(PopUnused, [L |-> NextToken(c.L), Code |-> code2])
      [] t.type = "Hash" ->
            LET a == AddString(NextToken(L), "#")
                e == ParseExpr(a.L, <<>>, FALSE)
                Func == [Code |-> Emit(e.Code, "Return", 0),
                         StringIndex |-> a.idx,
                         ArgCount |-> Indeterminate,
                         Args |-> <<>>]
                L2 == [e.L EXCEPT !.Funcs = Append(@, Func)]
            IN  PopIf(PopUnused,
                      [L |-> L2, Code |-> Emit(Code, "LoadFunc", Len(L2.Funcs) - 1)])
      [] t.type = "String" ->
            LET a == AddString(L, t.str)
            IN  PopIf(PopUnused,
                      [L |-> NextToken(a.L), Code |-> Emit(Code, "LoadString", a.idx)])
      [] t.type = "Number" ->
            LET a == AddNumber(L, t.num)
            IN  PopIf(PopUnused,
                      [L |-> NextToken(a.L), Code |-> Emit(Code, "LoadNumber", a.idx)])
      [] t.type = "Symbol" ->
            IF t.str = "true"
            THEN PopIf(PopUnused, [L |-> NextToken(L), Code |-> Emit(Code, "LoadBool", 1)])
            ELSE IF t.str = "false"
            THEN PopIf(PopUnused, [L |-> NextToken(L), Code |-> Emit(Code, "LoadBool", 0)])
            ELSE LET a == AddString(L, t.str)
                 IN  PopIf(PopUnused,
                           [L |-> NextToken(a.L), Code |-> Emit(Code, "LoadSymbol", a.idx)])
      [] OTHER -> PopIf(PopUnused, [L |-> L, Code |-> Code])

RECURSIVE CompileLoop(_, _, _)
\* while (Lexer.TokenType != TokenType_EOF) ParseExpr(Script, &Script->Code, &Lexer, true)
\* Forms collects, for each top-level form, the code index that follows it.
CompileLoop(L, Code, Forms) ==
    IF CurTok(L).type = "EOF"
    THEN [L |-> L, Code |-> Code, Forms |-> Forms]
    ELSE LET e == ParseExpr(L, Code, TRUE)
         IN  CompileLoop(e.L, e.Code, Append(Forms, Len(e.Code) + 1))

CompileScript(Source) ==
    LET L0 == [toks |-> Source, pos |-> 1, Strings |-> <<>>, Numbers |-> <<>>,
               Funcs |-> <<>>]
        c == CompileLoop(L0, <<>>, <<>>)
    IN  [Strings |-> c.L.Strings, Numbers |-> c.L.Numbers, Funcs |-> c.L.Funcs,
         Code |-> Emit(c.Code, "Halt", 0), Forms |-> c.Forms]

(***************************************************************************)
(* Values (sl_value): a tag and a payload.  The payload of a String is the *)
(* index of the Script string it points to, of a Func the index in Funcs,  *)
(* of a NativeFunc the registered name, of a Coroutine the object's id.    *)
(***************************************************************************)
Nil == [type |-> "Nil", v |-> 0]
CreateBool(b) == [type |-> "Bool", v |-> b]
CreateNumber(n) == [type |-> "Number", v |-> n]
StringValue(i) == [type |-> "String", v |-> i]
FuncValue(f) == [type |-> "Func", v |-> f]
NativeValue(name) == [type |-> "NativeFunc", v |-> name]
CoroutineValue(c) == [type |-> "Coroutine", v |-> c]

\* A truthiness test that also takes the number 0 and the empty string as false.
IsFalseLoose(Value) ==
    \/ (Value.type = "Bool" /\ ~Value.v) \/ Value.type = "Nil"
    \/ (Value.type = "Number" /\ Value.v = 0)
    \/ (Value.type = "String" /\ Script.Strings[Value.v + 1] = "")

\* #define IsFalse(Value)
IsFalse(Value) == (Value.type = "Bool" /\ ~Value.v) \/ Value.type = "Nil"

\* InitVM: the natives registered in Globals.
NativeNames == {"+", "-", "*", "/", "println", "read", "if", "when",
                "coroutine", "call", "yield", "done?"}
InitVM == [n \in NativeNames |-> NativeValue(n)]

\* ValueTypeStrings
ValueTypeStrings(t) ==
    CASE t = "Nil" -> "nil" [] t = "Bool" -> "bool" [] t = "Number" -> "number"
      [] t = "String" -> "string" [] t = "Func" -> "func"
      [] t = "NativeFunc" -> "native_func" [] t = "Coroutine" -> "coroutine"
      [] OTHER -> "custom"

(***************************************************************************)
(* Frames, code buffers, the operand stack.                                *)
(***************************************************************************)
\* A code buffer is named 0 (Script->Code) or f + 1 (Script->Funcs[f]->Code).
CodeOf(buf) == IF buf = 0 THEN Script.Code ELSE Script.Funcs[buf].Code

VarIds == 0..(Len(Script.Strings) - 1)

\* new sl_call_frame, as filled in by PushCallFrame.  alive turns FALSE at
\* `delete`; how and below are history: what created the frame and the
\* operand stack beneath its callee at that moment.
NewFrame(buf, Co, Parent, how, below) ==
    [Vars |-> [i \in VarIds |-> Nil], buf |-> buf, pc |-> 1,
     Coroutine |-> Co, Parent |-> Parent, alive |-> TRUE,
     how |-> how, below |-> below]

StackTop == Len(Stack)

StackPush(S, Value) == Append(S, Value)

\* StackPop: the value returned, and the stack left (an empty stack gives Nil).
PopValue(S) == IF Len(S) > 0 THEN S[Len(S)] ELSE Nil
PopRest(S) == IF Len(S) > 0 THEN SubSeq(S, 1, Len(S) - 1) ELSE S

\* for (i = Arg - 1; i >= 0; --i) Args[i] = StackPop(Vm): Args[i] is PopArgs(S, n)[i + 1].
PopArgs(S, n) ==
    [i \in 1..n |-> IF Len(S) - n + i >= 1 THEN S[Len(S) - n + i] ELSE Nil]
PopArgsRest(S, n) == IF Len(S) > n THEN SubSeq(S, 1, Len(S) - n) ELSE <<>>

(***************************************************************************)
(* The interpreter loop: one step is one iteration of for (;;) in Execute, *)
(* run by the innermost live activation on Vm->CurrentFrame.               *)
(***************************************************************************)
Cur == Frames[CurrentFrame]

Running == status = "running" /\ acts # <<>>

\* The loop can read an instruction of the current frame's buffer.
CanFetch ==
    /\ Running
    /\ CurrentFrame # 0
    /\ Cur.alive
    /\ Cur.pc <= Len(CodeOf(Cur.buf))

Instr == CodeOf(Cur.buf)[Cur.pc]

\* Frame->CodePtr++ twice: the frames once the instruction has been read.
Fetched == [Frames EXCEPT ![CurrentFrame].pc = @ + 1]

TopAct == acts[Len(acts)]

NoReturn == [how |-> "none", native |-> "", caller |-> 0, frame |-> 0, base |-> 0]

\* History of a dispatch: the instruction, its frame, the activation that ran
\* it (its depth, the native that started it and that native's caller frame)
\* and, for a FuncCall on a native, the native's name.
Dispatched ==
    [op |-> Instr.op, arg |-> Instr.arg, frame |-> CurrentFrame,
     depth |-> Len(acts), native |-> TopAct.native, caller |-> TopAct.caller,
     callee |-> IF Instr.op = "FuncCall"
                   /\ PopValue(PopArgsRest(Stack, Instr.arg)).type = "NativeFunc"
                THEN PopValue(PopArgsRest(Stack, Instr.arg)).v ELSE ""]

\* An instruction op is dispatched and the activation keeps running.
Dispatch(op) ==
    /\ CanFetch
    /\ Instr.op = op
    /\ last' = Dispatched

\* goto end: the innermost activation returns to the native that started it
\* (which returns at once), or main returns.
EndActivation(how) ==
    /\ acts' = SubSeq(acts, 1, Len(acts) - 1)
    /\ status' = IF Len(acts) = 1 THEN "exited" ELSE status
    /\ returned' = [how |-> how, native |-> TopAct.native, caller |-> TopAct.caller,
                    frame |-> TopAct.frame, base |-> TopAct.base]

Continue == acts' = acts /\ status' = status /\ returned' = NoReturn

\* #define MaxVars 255: the length of Vm->Stack (and of a frame's Vars).
MaxVars == 255

\* Continue after StackPush: a push at StackTop >= MaxVars has written
\* Vm->Stack[StackTop++] beyond the array.
ContinuePushed ==
    /\ acts' = acts
    /\ returned' = NoReturn
    /\ status' = IF Len(Stack') > MaxVars THEN "undefined" ELSE status

\* case OpCode_Def
OpDef ==
    /\ Dispatch("Def")
    /\ Frames' = [Fetched EXCEPT ![CurrentFrame].Vars[Instr.arg] = PopValue(Stack)]
    /\ Stack' = PopRest(Stack)
    /\ Continue
    /\ UNCHANGED <<prog, Script, Lexer, Parser, interned, StringPool, Globals, CurrentFrame, Coroutines, RefCount,
                   printed, halted>>

\* A Defonce that stores like Def, whatever the slot holds.
OpDefonceAlways ==
    /\ Dispatch("Defonce")
    /\ Frames' = [Fetched EXCEPT ![CurrentFrame].Vars[Instr.arg] = PopValue(Stack)]
    /\ Stack' = PopRest(Stack)
    /\ Continue
    /\ UNCHANGED <<prog, Script, Lexer, Parser, interned, StringPool, Globals, CurrentFrame, Coroutines, RefCount,
                   printed, halted>>

\* case OpCode_Defonce
OpDefonce ==
    /\ Dispatch("Defonce")
    /\ IF Cur.Vars[Instr.arg].type = "Nil"
       THEN /\ Frames' = [Fetched EXCEPT ![CurrentFrame].Vars[Instr.arg] = PopValue(Stack)]
            /\ Stack' = PopRest(Stack)
       ELSE /\ Frames' = Fetched
            /\ Stack' = Stack
    /\ Continue
    /\ UNCHANGED <<prog, Script, Lexer, Parser, interned, StringPool, Globals, CurrentFrame, Coroutines, RefCount,
                   printed, halted>>

RECURSIVE SetWalk(_, _, _, _, _)
\* The while (LookFrame) loop of Set: every frame of the chain whose slot is
\* non-Nil takes one StackPop.  A chain that reaches a deleted frame is read
\* after free (ub).
SetWalk(F, S, LookFrame, Arg, Set) ==
    IF LookFrame = 0 THEN [Frames |-> F, Stack |-> S, Set |-> Set, ub |-> FALSE]
    ELSE IF ~F[LookFrame].alive THEN [Frames |-> F, Stack |-> S, Set |-> Set, ub |-> TRUE]
    ELSE IF F[LookFrame].Vars[Arg].type # "Nil"
    THEN SetWalk([F EXCEPT ![LookFrame].Vars[Arg] = PopValue(S)], PopRest(S),
                 F[LookFrame].Parent, Arg, TRUE)
    ELSE SetWalk(F, S, F[LookFrame].Parent, Arg, Set)

\* Vm->Globals[Str] = Value
GlobalsWith(G, name, Value) ==
    [n \in DOMAIN G \cup {name} |-> IF n = name THEN Value ELSE G[n]]

\* case OpCode_Set
OpSet ==
    /\ Dispatch("Set")
    /\ LET w == SetWalk(Fetched, Stack, CurrentFrame, Instr.arg, FALSE) IN
       IF w.ub
       THEN /\ status' = "undefined"
            /\ acts' = acts /\ returned' = NoReturn
            /\ Frames' = Fetched
            /\ UNCHANGED <<Stack, Globals>>
       ELSE /\ Continue
            /\ Frames' = w.Frames
            /\ IF w.Set
               THEN Stack' = w.Stack /\ Globals' = Globals
               ELSE /\ Globals' = GlobalsWith(Globals, Script.Strings[Instr.arg + 1],
                                              PopValue(w.Stack))
                    /\ Stack' = PopRest(w.Stack)
    /\ UNCHANGED <<prog, Script, Lexer, Parser, interned, StringPool, CurrentFrame, Coroutines, RefCount, printed, halted>>

\* case OpCode_Defun
OpDefun ==
    /\ Dispatch("Defun")
    /\ Frames' = [Fetched EXCEPT
                    ![CurrentFrame].Vars[Script.Funcs[Instr.arg + 1].StringIndex] =
                        FuncValue(Instr.arg)]
    /\ Continue
    /\ UNCHANGED <<prog, Script, Lexer, Parser, interned, StringPool, Globals, Stack, CurrentFrame, Coroutines, RefCount,
                   printed, halted>>

\* case OpCode_LoadBool
OpLoadBool ==
    /\ Dispatch("LoadBool")
    /\ Frames' = Fetched
    /\ Stack' = StackPush(Stack, CreateBool(Instr.arg = 1))
    /\ ContinuePushed
    /\ UNCHANGED <<prog, Script, Lexer, Parser, interned, StringPool, Globals, CurrentFrame, Coroutines, RefCount,
                   printed, halted>>

\* case OpCode_LoadNumber
OpLoadNumber ==
    /\ Dispatch("LoadNumber")
    /\ Frames' = Fetched
    /\ Stack' = StackPush(Stack, CreateNumber(Script.Numbers[Instr.arg + 1]))
    /\ ContinuePushed
    /\ UNCHANGED <<prog, Script, Lexer, Parser, interned, StringPool, Globals, CurrentFrame, Coroutines, RefCount,
                   printed, halted>>

\* IncRef: only a String has a count.
IncRef(RC, Value) ==
    IF Value.type = "String" THEN [RC EXCEPT ![Value.v] = @ + 1] ELSE RC

\* case OpCode_LoadString
OpLoadString ==
    /\ Dispatch("LoadString")
    /\ Frames' = Fetched
    /\ RefCount' = IncRef(RefCount, StringValue(Instr.arg))
    /\ Stack' = StackPush(Stack, StringValue(Instr.arg))
    /\ ContinuePushed
    /\ UNCHANGED <<prog, Script, Lexer, Parser, interned, StringPool, Globals, CurrentFrame, Coroutines, printed, halted>>

RECURSIVE LoadWalkStopsAtFirst(_, _, _, _)
\* A walk that would stop at the first frame whose slot is non-Nil.
LoadWalkStopsAtFirst(S, LookFrame, Arg, Found) ==
    IF LookFrame = 0 THEN [Stack |-> S, Found |-> Found, ub |-> FALSE]
    ELSE IF ~Frames[LookFrame].alive THEN [Stack |-> S, Found |-> Found, ub |-> TRUE]
    ELSE IF Frames[LookFrame].Vars[Arg].type # "Nil"
    THEN [Stack |-> StackPush(S, Frames[LookFrame].Vars[Arg]), Found |-> TRUE, ub |-> FALSE]
    ELSE LoadWalkStopsAtFirst(S, Frames[LookFrame].Parent, Arg, Found)

RECURSIVE LoadWalk(_, _, _, _)
\* The while (LookFrame) loop of LoadSymbol: every non-Nil slot of the chain
\* is pushed, innermost frame first.
LoadWalk(S, LookFrame, Arg, Found) ==
    IF LookFrame = 0 THEN [Stack |-> S, Found |-> Found, ub |-> FALSE]
    ELSE IF ~Frames[LookFrame].alive THEN [Stack |-> S, Found |-> Found, ub |-> TRUE]
    ELSE IF Frames[LookFrame].Vars[Arg].type # "Nil"
    THEN LoadWalk(StackPush(S, Frames[LookFrame].Vars[Arg]),
                  Frames[LookFrame].Parent, Arg, TRUE)
    ELSE LoadWalk(S, Frames[LookFrame].Parent, Arg, Found)

\* case OpCode_LoadSymbol
OpLoadSymbol ==
    /\ Dispatch("LoadSymbol")
    /\ Frames' = Fetched
    /\ LET w == LoadWalk(Stack, CurrentFrame, Instr.arg, FALSE)
           Name == Script.Strings[Instr.arg + 1]
       IN  IF w.ub
           THEN /\ status' = "undefined"
                /\ acts' = acts /\ returned' = NoReturn
                /\ Stack' = Stack
           ELSE /\ Stack' = IF w.Found THEN w.Stack
                            ELSE IF Name \in DOMAIN Globals
                            THEN StackPush(Stack, Globals[Name])
                            ELSE StackPush(Stack, Nil)
                /\ ContinuePushed
    /\ UNCHANGED <<prog, Script, Lexer, Parser, interned, StringPool, Globals, CurrentFrame, Coroutines, RefCount,
                   printed, halted>>

\* case OpCode_LoadFunc
OpLoadFunc ==
    /\ Dispatch("LoadFunc")
    /\ Frames' = Fetched
    /\ Stack' = StackPush(Stack, FuncValue(Instr.arg))
    /\ ContinuePushed
    /\ UNCHANGED <<prog, Script, Lexer, Parser, interned, StringPool, Globals, CurrentFrame, Coroutines, RefCount,
                   printed, halted>>

(***************************************************************************)
(* FuncCall.                                                               *)
(***************************************************************************)
\* What FuncCall pops: the Arg arguments, then the callee.
CallArgs == PopArgs(Stack, Instr.arg)
Callee == PopValue(PopArgsRest(Stack, Instr.arg))
Rest == PopRest(PopArgsRest(Stack, Instr.arg))

\* PushCallFrame: the new frame's id, and the frames with it.
PushCallFrame(F, buf, Co, how) ==
    Append(F, NewFrame(buf, Co, CurrentFrame, how, Rest))

\* The values Func->ArgCount can hold: `new sl_func` leaves it unset for a
\* function that has no parameter list.
ArgCountOf(Func) ==
    IF Func.ArgCount = Indeterminate THEN 0..MaxGarbage ELSE {Func.ArgCount}

\* The arguments FuncCall pushes back for the callee's Def prologue.
PushedArgs(ArgCount, Args) ==
    [i \in 1..ArgCount |-> IF i > Len(Args) THEN Nil ELSE Args[i]]

\* case OpCode_FuncCall, FuncVal.Type == ValueType_Func
FuncCallFunc ==
    /\ Dispatch("FuncCall")
    /\ Callee.type = "Func"
    /\ \E n \in ArgCountOf(Script.Funcs[Callee.v + 1]) :
          Stack' = Rest \o PushedArgs(n, CallArgs)
    /\ Frames' = PushCallFrame(Fetched, Callee.v + 1, 0, "FuncCall")
    /\ CurrentFrame' = Len(Frames) + 1
    /\ ContinuePushed
    /\ UNCHANGED <<prog, Script, Lexer, Parser, interned, StringPool, Globals, Coroutines, RefCount, printed, halted>>

\* case OpCode_FuncCall, the callee is neither a native nor a function
FuncCallOther ==
    /\ Dispatch("FuncCall")
    /\ Callee.type \notin {"Func", "NativeFunc"}
    /\ Frames' = Fetched
    /\ Stack' = Rest
    /\ Continue
    /\ UNCHANGED <<prog, Script, Lexer, Parser, interned, StringPool, Globals, CurrentFrame, Coroutines, RefCount,
                   printed, halted>>

NativeCall(name) ==
    /\ Dispatch("FuncCall")
    /\ Callee.type = "NativeFunc"
    /\ Callee.v = name

\* The assert at the head of each native.
AssertOk(name, ArgCount) ==
    CASE name \in {"+", "-", "*", "/"} -> ArgCount = 2
      [] name = "if" -> ArgCount = 3
      [] name = "when" -> ArgCount = 2
      [] name \in {"coroutine", "call", "done?"} -> ArgCount >= 1
      [] OTHER -> TRUE

\* A failed assert: abort(), or with NDEBUG a read past the Args array.
AssertFail ==
    /\ Dispatch("FuncCall")
    /\ Callee.type = "NativeFunc"
    /\ ~AssertOk(Callee.v, Instr.arg)
    /\ \E outcome \in {"aborted", "undefined"} : status' = outcome
    /\ Frames' = Fetched
    /\ Stack' = Rest
    /\ acts' = acts /\ returned' = NoReturn
    /\ UNCHANGED <<prog, Script, Lexer, Parser, interned, StringPool, Globals, CurrentFrame, Coroutines, RefCount,
                   printed, halted>>

\* The float operation of Add, Sub, Mul, Div on the model's integers.
ArithResult(name, a, b) ==
    CASE name = "+" -> a + b
      [] name = "-" -> a - b
      [] name = "*" -> a * b
      [] name = "/" -> a \div b

\* ARITH_OP_CHECK and the switch of Add, Sub, Mul, Div.  A quotient that is
\* no integer is outside the model's numbers: Div has no step there.
Arith(name) ==
    /\ NativeCall(name)
    /\ AssertOk(name, Instr.arg)
    /\ LET a == CallArgs[1]
           b == CallArgs[2]
       IN  IF a.type # b.type
           THEN /\ printed' = Append(printed, "error: " \o name \o ": different types ("
                                  \o ValueTypeStrings(a.type) \o ", "
                                  \o ValueTypeStrings(b.type) \o ")")
                /\ Stack' = Rest
           ELSE IF a.type = "Number"
           THEN /\ name = "/" => (b.v # 0 /\ a.v % b.v = 0)
                /\ printed' = printed
                /\ Stack' = StackPush(Rest, CreateNumber(ArithResult(name, a.v, b.v)))
           ELSE /\ printed' = Append(printed, "error: " \o name \o ": invalid type ("
                                  \o ValueTypeStrings(a.type) \o ")")
                /\ Stack' = Rest
    /\ Frames' = Fetched
    /\ Continue
    /\ UNCHANGED <<prog, Script, Lexer, Parser, interned, StringPool, Globals, CurrentFrame, Coroutines, RefCount, halted>>

Add == Arith("+")
Sub == Arith("-")
Mul == Arith("*")
Div == Arith("/")

\* String->Value of a String value.
StringText(Value) ==
    IF Value.v >= 0 THEN Script.Strings[Value.v + 1] ELSE StringPool.Value[0 - Value.v]

\* printf("%.4f", Number) of an integer.
FormatNumber(n) == ToString(n) \o ".0000"

RECURSIVE PrintArgs(_, _, _, _)
\* The for loop of Println: the lines completed so far and the line being
\* written.  The default case ends its text with a newline of its own.
PrintArgs(Args, i, lines, line) ==
    IF i > Len(Args) THEN Append(lines, line)
    ELSE LET Arg == Args[i]
             sep == IF i < Len(Args) THEN " " ELSE ""
         IN  CASE Arg.type = "Nil" -> PrintArgs(Args, i + 1, lines, line \o "nil" \o sep)
               [] Arg.type = "Bool" ->
                    PrintArgs(Args, i + 1, lines,
                              line \o (IF Arg.v THEN "true" ELSE "false") \o sep)
               [] Arg.type = "String" ->
                    PrintArgs(Args, i + 1, lines,
                              line \o StringText(Arg) \o sep)
               [] Arg.type = "Number" ->
                    PrintArgs(Args, i + 1, lines, line \o FormatNumber(Arg.v) \o sep)
               [] Arg.type = "Coroutine" ->
                    PrintArgs(Args, i + 1, lines,
                              line \o "coroutine ("
                                   \o Script.Strings[
                                        Script.Funcs[Coroutines[Arg.v].Func + 1].StringIndex + 1]
                                   \o ")" \o sep)
               [] OTHER ->
                    PrintArgs(Args, i + 1,
                              Append(lines, line \o "println unimplemented for this type"),
                              sep)

\* NATIVE_FUNC(Println)
Println ==
    /\ NativeCall("println")
    /\ printed' = printed \o PrintArgs(CallArgs, 1, <<>>, "")
    /\ Stack' = StackPush(Rest, Nil)
    /\ Frames' = Fetched
    /\ Continue
    /\ UNCHANGED <<prog, Script, Lexer, Parser, interned, StringPool, Globals, CurrentFrame, Coroutines, RefCount, halted>>

\* A new activation of Execute, started by a native under StopOnReturn.
Activation(native, frame) ==
    [StopOnReturn |-> TRUE, native |-> native, caller |-> CurrentFrame,
     frame |-> frame, base |-> Len(Rest)]

\* CallScriptFunc as the last statement of If and When: Execute on the thunk's
\* code under StopOnReturn, or nothing when the value is no Func.
CallScriptFunc(native, Value, S) ==
    IF Value.type = "Func"
    THEN /\ Frames' = PushCallFrame(Fetched, Value.v + 1, 0, "thunk")
         /\ CurrentFrame' = Len(Frames) + 1
         /\ acts' = Append(acts, Activation(native, Len(Frames) + 1))
         /\ Stack' = S
    ELSE /\ Frames' = Fetched
         /\ CurrentFrame' = CurrentFrame
         /\ acts' = acts
         /\ Stack' = S

\* The thunk If runs.
IfBranch(Args) == IF ~IsFalse(Args[1]) THEN Args[2] ELSE Args[3]

\* NATIVE_FUNC(If)
If ==
    /\ NativeCall("if")
    /\ AssertOk("if", Instr.arg)
    /\ CallScriptFunc("if", IfBranch(CallArgs), Rest)
    /\ status' = status /\ returned' = NoReturn
    /\ UNCHANGED <<prog, Script, Lexer, Parser, interned, StringPool, Globals, Coroutines, RefCount, printed, halted>>

\* NATIVE_FUNC(When)
When ==
    /\ NativeCall("when")
    /\ AssertOk("when", Instr.arg)
    /\ IF ~IsFalse(CallArgs[1])
       THEN CallScriptFunc("when", CallArgs[2], Rest)
       ELSE /\ Frames' = Fetched
            /\ CurrentFrame' = CurrentFrame
            /\ acts' = acts
            /\ Stack' = StackPush(Rest, Nil)
    /\ status' = status /\ returned' = NoReturn
    /\ UNCHANGED <<prog, Script, Lexer, Parser, interned, StringPool, Globals, Coroutines, RefCount, printed, halted>>

(***************************************************************************)
(* Coroutines.                                                             *)
(***************************************************************************)
\* NATIVE_FUNC(Coroutine).  The coroutine pool never frees an object, so
\* GetObject always allocates.  Args[0].Func of a value that is no Func is
\* whatever the union holds.
Coroutine ==
    /\ NativeCall("coroutine")
    /\ AssertOk("coroutine", Instr.arg)
    /\ Coroutines' = Append(Coroutines,
                            [Frame |-> 0,
                             Func |-> IF CallArgs[1].type = "Func" THEN CallArgs[1].v
                                      ELSE Indeterminate])
    /\ Stack' = StackPush(Rest, CoroutineValue(Len(Coroutines) + 1))
    /\ Frames' = Fetched
    /\ Continue
    /\ UNCHANGED <<prog, Script, Lexer, Parser, interned, StringPool, Globals, CurrentFrame, RefCount, printed, halted>>

\* *(Frame->CodePtr - 2): the opcode of the instruction before the code pointer.
PrevOp(f) ==
    IF Fetched[f].pc >= 2 /\ Fetched[f].pc - 1 <= Len(CodeOf(Fetched[f].buf))
    THEN CodeOf(Fetched[f].buf)[Fetched[f].pc - 1].op
    ELSE "garbage"

\* What a read of *(Co->Frame->CodePtr - 2) can give: a deleted frame is read
\* after free.
ReadPrevOp(f) ==
    IF Fetched[f].alive THEN {PrevOp(f)} ELSE {PrevOp(f), "Return", "garbage"}

\* What Call pushes before it resumes a suspended coroutine.
CallPush(Args) ==
    IF Len(Args) > 1 THEN SubSeq(Args, 2, Len(Args)) ELSE <<Nil>>

\* NATIVE_FUNC(Call) on a coroutine value.
Call ==
    /\ NativeCall("call")
    /\ AssertOk("call", Instr.arg)
    /\ CallArgs[1].type = "Coroutine"
    /\ LET c == CallArgs[1].v
           Co == Coroutines[c]
       IN  /\ Co.Func # Indeterminate
           /\ IF Co.Frame # 0
              THEN \E seen \in ReadPrevOp(Co.Frame) :
                      IF seen = "Return"
                      THEN /\ Stack' = StackPush(Rest, Nil)
                           /\ Frames' = Fetched
                           /\ CurrentFrame' = CurrentFrame
                           /\ acts' = acts
                      ELSE \* Execute(..., true, Co) with Co->Frame set
                           /\ Stack' = Rest \o CallPush(CallArgs)
                           /\ Frames' = Fetched
                           /\ CurrentFrame' = Co.Frame
                           /\ acts' = Append(acts, Activation("call", Co.Frame))
              ELSE \* Execute(..., true, Co) with Co->Frame NULL
                   /\ Stack' = Rest
                   /\ Frames' = PushCallFrame(Fetched, Co.Func + 1, c, "coroutine")
                   /\ CurrentFrame' = Len(Frames) + 1
                   /\ acts' = Append(acts, Activation("call", Len(Frames) + 1))
    /\ status' = status /\ returned' = NoReturn
    /\ UNCHANGED <<prog, Script, Lexer, Parser, interned, StringPool, Globals, Coroutines, RefCount, printed, halted>>

\* A Yield that drops its argument.
YieldPushNil(Args) == Nil

\* What Yield pushes.
YieldPush(Args) == IF Len(Args) > 0 THEN Args[1] ELSE Nil

\* A Yield that pushes its value whether or not the frame has a coroutine.
YieldPushesAnyway ==
    /\ NativeCall("yield")
    /\ Stack' = StackPush(Rest, YieldPush(CallArgs))
    /\ LET Co == Cur.Coroutine IN
       IF Co # 0
       THEN /\ CurrentFrame' = Cur.Parent
            /\ Coroutines' = [Coroutines EXCEPT ![Co].Frame = CurrentFrame]
       ELSE /\ CurrentFrame' = CurrentFrame
            /\ Coroutines' = Coroutines
    /\ Frames' = Fetched
    /\ Continue
    /\ UNCHANGED <<prog, Script, Lexer, Parser, interned, StringPool, Globals, RefCount, printed, halted>>

\* NATIVE_FUNC(Yield)
Yield ==
    /\ NativeCall("yield")
    /\ LET Co == Cur.Coroutine IN
       IF Co # 0
       THEN /\ Stack' = StackPush(Rest, YieldPush(CallArgs))
            /\ CurrentFrame' = Cur.Parent
            /\ Coroutines' = [Coroutines EXCEPT ![Co].Frame = CurrentFrame]
       ELSE /\ Stack' = Rest
            /\ CurrentFrame' = CurrentFrame
            /\ Coroutines' = Coroutines
    /\ Frames' = Fetched
    /\ Continue
    /\ UNCHANGED <<prog, Script, Lexer, Parser, interned, StringPool, Globals, RefCount, printed, halted>>

\* A Done that tests for the opposite opcode.
DoneResultNegated(seen) == CreateBool(seen # "Return")

\* The Bool that Done pushes for a coroutine whose Frame is set.
DoneResult(seen) == CreateBool(seen = "Return")

\* NATIVE_FUNC(Done) on a coroutine value.
Done ==
    /\ NativeCall("done?")
    /\ AssertOk("done?", Instr.arg)
    /\ CallArgs[1].type = "Coroutine"
    /\ LET Co == Coroutines[CallArgs[1].v] IN
       IF Co.Frame # 0
       THEN \E seen \in ReadPrevOp(Co.Frame) :
               Stack' = StackPush(Rest, DoneResult(seen))
       ELSE Stack' = StackPush(Rest, CreateBool(FALSE))
    /\ Frames' = Fetched
    /\ Continue
    /\ UNCHANGED <<prog, Script, Lexer, Parser, interned, StringPool, Globals, CurrentFrame, Coroutines, RefCount,
                   printed, halted>>

\* Call or Done on a value that is no coroutine (Args[0].Coroutine is whatever
\* the union holds), or Call on a coroutine made from a value that is no Func.
BadCoroutine ==
    /\ \/ NativeCall("call") /\ AssertOk("call", Instr.arg)
       \/ NativeCall("done?") /\ AssertOk("done?", Instr.arg)
    /\ \/ CallArgs[1].type # "Coroutine"
       \/ /\ Callee.v = "call"
          /\ CallArgs[1].type = "Coroutine"
          /\ Coroutines[CallArgs[1].v].Func = Indeterminate
    /\ status' = "undefined"
    /\ Frames' = Fetched
    /\ Stack' = Rest
    /\ acts' = acts /\ returned' = NoReturn
    /\ UNCHANGED <<prog, Script, Lexer, Parser, interned, StringPool, Globals, CurrentFrame, Coroutines, RefCount,
                   printed, halted>>

(***************************************************************************)
(* The string pool (sl_pool).  An entry and the object it holds (Data) have *)
(* one number, from 1; 0 is NULL.  Next is the one link field that both    *)
(* the list from First and the list from FirstFree go through.  RefCount   *)
(* and Value are the fields of the pooled sl_string objects.  A String     *)
(* value that points to pool object p has the payload -p.                  *)
(***************************************************************************)
EmptyPool == [First |-> 0, FirstFree |-> 0, Next |-> <<>>, RefCount |-> <<>>, Value |-> <<>>]

\* GetObject: the head of the free list if there is one, else a new entry at
\* the head of the list from First (its object comes from malloc; CreateString
\* writes RefCount and Value before anything reads them).
GetObject(Pool) ==
    IF Pool.FirstFree # 0
    THEN [Pool |-> [Pool EXCEPT !.FirstFree = Pool.Next[Pool.FirstFree]],
          Data |-> Pool.FirstFree]
    ELSE [Pool |-> [Pool EXCEPT !.Next = Append(@, Pool.First),
                                !.First = Len(Pool.Next) + 1,
                                !.RefCount = Append(@, 0),
                                !.Value = Append(@, "")],
          Data |-> Len(Pool.Next) + 1]

RECURSIVE FindEntry(_, _, _, _, _)
\* The while (Entry) loop of FreeObject up to its match.  Once it has looked
\* at more entries than exist it is going round a cycle and never ends.
FindEntry(Pool, Entry, Prev, Data, n) ==
    IF Entry = 0 \/ Entry = Data THEN [Entry |-> Entry, Prev |-> Prev, hang |-> FALSE]
    ELSE IF n > Len(Pool.Next) THEN [Entry |-> 0, Prev |-> 0, hang |-> TRUE]
    ELSE FindEntry(Pool, Pool.Next[Entry], Entry, Data, n + 1)

\* FreeObject: the entry goes to the head of the free list; it is unlinked
\* from the list it was found in only `if (Prev)`.
FreeObject(Pool, Data) ==
    LET e == FindEntry(Pool, Pool.First, 0, Data, 0) IN
    IF e.Entry = 0 THEN [Pool |-> Pool, hang |-> e.hang]
    ELSE [Pool |-> [Pool EXCEPT
                      !.Next = IF e.Prev # 0
                               THEN [@ EXCEPT ![e.Entry] = Pool.FirstFree,
                                              ![e.Prev] = Pool.Next[e.Entry]]
                               ELSE [@ EXCEPT ![e.Entry] = Pool.FirstFree],
                      !.FirstFree = e.Entry],
          hang |-> FALSE]

\* CreateString: GetObject, InitRef, the fields.
CreateString(Pool, Value) ==
    LET g == GetObject(Pool) IN
    [Pool |-> [g.Pool EXCEPT !.RefCount[g.Data] = 0, !.Value[g.Data] = Value],
     Value |-> [type |-> "String", v |-> 0 - g.Data]]

\* DecRef on pool object p: the count goes down; at or below 0 it is set to
\* 0 and the object is given to FreeObject.
DecRefPooled(Pool, p) ==
    IF Pool.RefCount[p] - 1 <= 0
    THEN FreeObject([Pool EXCEPT !.RefCount[p] = 0], p)
    ELSE [Pool |-> [Pool EXCEPT !.RefCount[p] = @ - 1], hang |-> FALSE]

\* ReadFile: what the file of that name holds.
ReadFile(Filename) == "contents of " \o Filename

\* NATIVE_FUNC(Read).  Args[0].String is read whatever Args[0] is; a file
\* that cannot be opened gives fseek a null handle.
Read ==
    /\ NativeCall("read")
    /\ Frames' = Fetched
    /\ acts' = acts /\ returned' = NoReturn
    /\ IF Instr.arg >= 1 /\ CallArgs[1].type = "String"
       THEN \E opened \in BOOLEAN :
               IF opened
               THEN LET s == CreateString(StringPool, ReadFile(StringText(CallArgs[1])))
                    IN  /\ StringPool' = s.Pool
                        /\ Stack' = StackPush(Rest, s.Value)
                        /\ status' = status
               ELSE /\ status' = "undefined"
                    /\ Stack' = Rest
                    /\ StringPool' = StringPool
       ELSE /\ status' = "undefined"
            /\ Stack' = Rest
            /\ StringPool' = StringPool
    /\ UNCHANGED <<prog, Script, Lexer, Parser, interned, Globals, CurrentFrame, Coroutines, RefCount,
                   printed, halted>>

(***************************************************************************)
(* Return, Pop, Halt.                                                      *)
(***************************************************************************)
\* case OpCode_Return: delete the current frame, go back to its parent, and
\* leave the loop if this activation runs under StopOnReturn.
OpReturn ==
    /\ Dispatch("Return")
    /\ Frames' = [Fetched EXCEPT ![CurrentFrame].alive = FALSE]
    /\ CurrentFrame' = Cur.Parent
    /\ IF TopAct.StopOnReturn THEN EndActivation("Return") ELSE Continue
    /\ UNCHANGED <<prog, Script, Lexer, Parser, interned, StringPool, Globals, Stack, Coroutines, RefCount, printed, halted>>

\* *Frame->CodePtr != OpCode_Return, read after the Pop itself.
PopSuppressed ==
    /\ Cur.pc + 1 <= Len(CodeOf(Cur.buf))
    /\ CodeOf(Cur.buf)[Cur.pc + 1].op = "Return"

\* DecRef: the count after the decrement (a count at or below 0 is set to 0).
DecRef(RC, Value) ==
    IF Value.type = "String"
    THEN [RC EXCEPT ![Value.v] = IF @ - 1 <= 0 THEN 0 ELSE @ - 1]
    ELSE RC

\* DecRef reaches `if (Ref->Pool) FreeObject(Ref->Pool, Ref)`.
DecRefFrees(RC, Value) == Value.type = "String" /\ RC[Value.v] - 1 <= 0

\* case OpCode_Pop.  The Pool field of a Script string was never written
\* (AddString's local sl_string): NULL, or a wild pointer FreeObject follows.
OpPop ==
    /\ Dispatch("Pop")
    /\ Frames' = Fetched
    /\ IF PopSuppressed
       THEN /\ Stack' = Stack
            /\ RefCount' = RefCount
            /\ StringPool' = StringPool
            /\ status' = status
       ELSE IF PopValue(Stack).type = "String" /\ PopValue(Stack).v < 0
       THEN \* a pooled string: its Pool field is &Vm->StringPool
            LET d == DecRefPooled(StringPool, 0 - PopValue(Stack).v) IN
            /\ Stack' = PopRest(Stack)
            /\ RefCount' = RefCount
            /\ StringPool' = d.Pool
            /\ status' = IF d.hang THEN "hung" ELSE status
       ELSE /\ Stack' = PopRest(Stack)
            /\ RefCount' = DecRef(RefCount, PopValue(Stack))
            /\ StringPool' = StringPool
            /\ IF DecRefFrees(RefCount, PopValue(Stack))
               THEN \E outcome \in {"running", "undefined"} : status' = outcome
               ELSE status' = status
    /\ acts' = acts /\ returned' = NoReturn
    /\ UNCHANGED <<prog, Script, Lexer, Parser, interned, Globals, CurrentFrame, Coroutines, printed, halted>>

\* case OpCode_Halt
OpHalt ==
    /\ Dispatch("Halt")
    /\ Frames' = Fetched
    /\ halted' = TRUE
    /\ EndActivation("Halt")
    /\ UNCHANGED <<prog, Script, Lexer, Parser, interned, StringPool, Globals, Stack, CurrentFrame, Coroutines, RefCount,
                   printed>>

(***************************************************************************)
(* Reads the loop makes outside what it owns.                              *)
(***************************************************************************)
\* The code pointer is at or past the end of its buffer (an outer activation
\* resumed after an inner one ran the frame to its Halt): the bytes read are
\* not the program's.  A zero byte is OpCode_Halt; anything else is undefined.
FetchPastEnd ==
    /\ Running
    /\ CurrentFrame # 0
    /\ Cur.alive
    /\ Cur.pc > Len(CodeOf(Cur.buf))
    /\ last' = [op |-> "PastEnd", arg |-> 0, frame |-> CurrentFrame,
                depth |-> Len(acts), native |-> TopAct.native, caller |-> TopAct.caller,
                callee |-> ""]
    /\ Frames' = Fetched
    /\ \E byte \in {"Halt", "other"} :
          IF byte = "Halt"
          THEN EndActivation("Halt")
          ELSE status' = "undefined" /\ acts' = acts /\ returned' = NoReturn
    /\ UNCHANGED <<prog, Script, Lexer, Parser, interned, StringPool, Globals, Stack, CurrentFrame, Coroutines, RefCount,
                   printed, halted>>

\* The current frame is NULL or was deleted: the loop reads freed memory.
FetchFreedFrame ==
    /\ Running
    /\ \/ CurrentFrame = 0
       \/ ~Cur.alive
    /\ last' = [op |-> "Freed", arg |-> 0, frame |-> CurrentFrame,
                depth |-> Len(acts), native |-> TopAct.native, caller |-> TopAct.caller,
                callee |-> ""]
    /\ status' = "undefined"
    /\ acts' = acts /\ returned' = NoReturn
    /\ UNCHANGED <<prog, Script, Lexer, Parser, interned, StringPool, Globals, Stack, Frames, CurrentFrame, Coroutines,
                   RefCount, printed, halted>>

(***************************************************************************)
(* The programs the model runs, as token streams.                          *)
(***************************************************************************)
Form(body) == <<LParen>> \o body \o <<RParen>>

RECURSIVE Repeat(_, _)
Repeat(seq, n) == IF n = 0 THEN <<>> ELSE seq \o Repeat(seq, n - 1)

RECURSIVE YieldForms(_, _)
\* (yield i) ... (yield k)
YieldForms(i, k) ==
    IF i > k THEN <<>> ELSE Form(<<Sym("yield"), Num(i)>>) \o YieldForms(i + 1, k)

\* Scenario S4 with k yields and n calls:
\*   (defun gen [] (yield 1) ... (yield k))  (def c (coroutine gen))
\*   (println (call c)) n times              (println (done? c))
GenSource(k, n) ==
    Form(<<Sym("defun"), Sym("gen"), LBracket, RBracket>> \o YieldForms(1, k))
    \o Form(<<Sym("def"), Sym("c")>> \o Form(<<Sym("coroutine"), Sym("gen")>>))
    \o Repeat(Form(<<Sym("println")>> \o Form(<<Sym("call"), Sym("c")>>)), n)
    \o Form(<<Sym("println")>> \o Form(<<Sym("done?"), Sym("c")>>))

GenPrograms ==
    {[name |-> "gen", k |-> k, n |-> n, toks |-> GenSource(k, n)] :
        k \in 0..MaxYields, n \in 0..(MaxYields + MaxExtraCalls)}

RECURSIVE ParamNames(_, _)
\* p1 ... pK
ParamNames(i, K) ==
    IF i > K THEN <<>> ELSE <<Sym("p" \o ToString(i))>> \o ParamNames(i + 1, K)

RECURSIVE Actuals(_, _)
\* 1 ... N
Actuals(i, N) == IF i > N THEN <<>> ELSE <<Num(i)>> \o Actuals(i + 1, N)

\* A function of K formal parameters called with N actual values:
\*   (defun f [p1 ... pK] 0)  (println (f 1 ... N))
ConvSource(K, N) ==
    Form(<<Sym("defun"), Sym("f"), LBracket>> \o ParamNames(1, K)
         \o <<RBracket, Num(0)>>)
    \o Form(<<Sym("println")>> \o Form(<<Sym("f")>> \o Actuals(1, N)))

ConvPrograms ==
    {[name |-> "conv", k |-> K, n |-> N, toks |-> ConvSource(K, N)] :
        K \in 0..MaxParams, N \in 0..(MaxParams + 1)}

\* Condition expressions, one per kind of value: an unbound symbol (Nil),
\* false, true, 0, 7, "", "a", a thunk, a native, a coroutine.
Conditions ==
    << <<Sym("nothing")>>, <<Sym("false")>>, <<Sym("true")>>, <<Num(0)>>, <<Num(7)>>,
       <<Str("")>>, <<Str("a")>>, <<Hash, Num(0)>>, <<Sym("println")>>,
       Form(<<Sym("coroutine"), Hash, Num(0)>>) >>

\* (println (if c #1 #2)) (println (when c #1))
TruthSource(c) ==
    Form(<<Sym("println")>> \o Form(<<Sym("if")>> \o c \o <<Hash, Num(1), Hash, Num(2)>>))
    \o Form(<<Sym("println")>> \o Form(<<Sym("when")>> \o c \o <<Hash, Num(1)>>))

TruthPrograms ==
    {[name |-> "truth", k |-> i, n |-> 0, toks |-> TruthSource(Conditions[i])] :
        i \in 1..Len(Conditions)}

RECURSIVE Extra(_, _, _)
\* The extra arguments of a call: base+1 ... base+m
Extra(base, i, m) ==
    IF i > m THEN <<>> ELSE <<Num(base + i)>> \o Extra(base, i + 1, m)

\* A coroutine called first with m1 and then with m2 extra arguments:
\*   (defun g [] (yield 1) (yield 2))  (def c (coroutine g))
\*   (println (call c 11 ..))  (println (call c 21 ..))
CoArgsSource(m1, m2) ==
    Form(<<Sym("defun"), Sym("g"), LBracket, RBracket>> \o YieldForms(1, 2))
    \o Form(<<Sym("def"), Sym("c")>> \o Form(<<Sym("coroutine"), Sym("g")>>))
    \o Form(<<Sym("println")>> \o Form(<<Sym("call"), Sym("c")>> \o Extra(10, 1, m1)))
    \o Form(<<Sym("println")>> \o Form(<<Sym("call"), Sym("c")>> \o Extra(20, 1, m2)))

CoArgsPrograms ==
    {[name |-> "coargs", k |-> m1, n |-> m2, toks |-> CoArgsSource(m1, m2)] :
        m1 \in 0..MaxCallArgs, m2 \in 0..MaxCallArgs}

\* (defun g [x] (yield x)) (def c (coroutine g)) (println (call c 5))
CoParamSource ==
    Form(<<Sym("defun"), Sym("g"), LBracket, Sym("x"), RBracket>>
         \o Form(<<Sym("yield"), Sym("x")>>))
    \o Form(<<Sym("def"), Sym("c")>> \o Form(<<Sym("coroutine"), Sym("g")>>))
    \o Form(<<Sym("println")>> \o Form(<<Sym("call"), Sym("c"), Num(5)>>))

\* yield in a plain function, in a thunk inside a coroutine, and at top level:
\*   (defun f [] (yield 7) 0)  (defun g [] (when true #(yield 8)) (f) (yield 9))
\*   (def c (coroutine g))  (f)  (println (call c))  (yield 1)
YieldOutsideSource ==
    Form(<<Sym("defun"), Sym("f"), LBracket, RBracket>>
         \o Form(<<Sym("yield"), Num(7)>>) \o <<Num(0)>>)
    \o Form(<<Sym("defun"), Sym("g"), LBracket, RBracket>>
            \o Form(<<Sym("when"), Sym("true"), Hash>> \o Form(<<Sym("yield"), Num(8)>>))
            \o Form(<<Sym("f")>>)
            \o Form(<<Sym("yield"), Num(9)>>))
    \o Form(<<Sym("def"), Sym("c")>> \o Form(<<Sym("coroutine"), Sym("g")>>))
    \o Form(<<Sym("f")>>)
    \o Form(<<Sym("println")>> \o Form(<<Sym("call"), Sym("c")>>))
    \o Form(<<Sym("yield"), Num(1)>>)

Program(name, toks) == [name |-> name, k |-> 0, n |-> 0, toks |-> toks]

\* (println (+ 1 2))
S1 == Form(<<Sym("println")>> \o Form(<<Sym("+"), Num(1), Num(2)>>))

\* (def x 10) (defun inc [y] (+ y 1)) (println (inc x))
S2 == Form(<<Sym("def"), Sym("x"), Num(10)>>)
      \o Form(<<Sym("defun"), Sym("inc"), LBracket, Sym("y"), RBracket>>
              \o Form(<<Sym("+"), Sym("y"), Num(1)>>))
      \o Form(<<Sym("println")>> \o Form(<<Sym("inc"), Sym("x")>>))

\* (def n 5) (println (when (+ n 0) #(+ n 100)))
S3 == Form(<<Sym("def"), Sym("n"), Num(5)>>)
      \o Form(<<Sym("println")>>
              \o Form(<<Sym("when")>> \o Form(<<Sym("+"), Sym("n"), Num(0)>>)
                      \o <<Hash>> \o Form(<<Sym("+"), Sym("n"), Num(100)>>)))

\* (defonce k 1) (defonce k 2) (println k)
S5 == Form(<<Sym("defonce"), Sym("k"), Num(1)>>)
      \o Form(<<Sym("defonce"), Sym("k"), Num(2)>>)
      \o Form(<<Sym("println"), Sym("k")>>)

\* (println "hi" "hi")
S6 == Form(<<Sym("println"), Str("hi"), Str("hi")>>)

\* (println (- 7 2) (* 2 3) (/ 6 3)) (+ 1 "a") (+ "a" "b")
ArithSource ==
    Form(<<Sym("println")>> \o Form(<<Sym("-"), Num(7), Num(2)>>)
         \o Form(<<Sym("*"), Num(2), Num(3)>>) \o Form(<<Sym("/"), Num(6), Num(3)>>))
    \o Form(<<Sym("+"), Num(1), Str("a")>>)
    \o Form(<<Sym("+"), Str("a"), Str("b")>>)

\* (set g 1) (def x 1) (set x 2) (println x g)
SetSource ==
    Form(<<Sym("set"), Sym("g"), Num(1)>>)
    \o Form(<<Sym("def"), Sym("x"), Num(1)>>)
    \o Form(<<Sym("set"), Sym("x"), Num(2)>>)
    \o Form(<<Sym("println"), Sym("x"), Sym("g")>>)

\* (def s "hi") (println s) s "yo"
StringSource ==
    Form(<<Sym("def"), Sym("s"), Str("hi")>>)
    \o Form(<<Sym("println"), Sym("s")>>)
    \o <<Sym("s"), Str("yo")>>

\* (def go true)
\* (defun g [] (def t go) (set go false) (when t #(call c)) (yield 1))
\* (def c (coroutine g)) (println (call c))
SelfCallSource ==
    Form(<<Sym("def"), Sym("go"), Sym("true")>>)
    \o Form(<<Sym("defun"), Sym("g"), LBracket, RBracket>>
            \o Form(<<Sym("def"), Sym("t"), Sym("go")>>)
            \o Form(<<Sym("set"), Sym("go"), Sym("false")>>)
            \o Form(<<Sym("when"), Sym("t"), Hash>> \o Form(<<Sym("call"), Sym("c")>>))
            \o Form(<<Sym("yield"), Num(1)>>))
    \o Form(<<Sym("def"), Sym("c")>> \o Form(<<Sym("coroutine"), Sym("g")>>))
    \o Form(<<Sym("println")>> \o Form(<<Sym("call"), Sym("c")>>))

\* (defun g []) (def c (coroutine g)) (call c) (call c) (println c)
NoYieldSource ==
    Form(<<Sym("defun"), Sym("g"), LBracket, RBracket>>)
    \o Form(<<Sym("def"), Sym("c")>> \o Form(<<Sym("coroutine"), Sym("g")>>))
    \o Form(<<Sym("call"), Sym("c")>>)
    \o Form(<<Sym("call"), Sym("c")>>)
    \o Form(<<Sym("println"), Sym("c")>>)

\* (defun f [] 1) (println (when true #(f)))
ThunkCallSource ==
    Form(<<Sym("defun"), Sym("f"), LBracket, RBracket, Num(1)>>)
    \o Form(<<Sym("println")>>
            \o Form(<<Sym("when"), Sym("true"), Hash>> \o Form(<<Sym("f")>>)))

\* (println (if true #(if false #1 #2) #3)) (if false 1 2)
NestedIfSource ==
    Form(<<Sym("println")>>
         \o Form(<<Sym("if"), Sym("true"), Hash>>
                 \o Form(<<Sym("if"), Sym("false"), Hash, Num(1), Hash, Num(2)>>)
                 \o <<Hash, Num(3)>>))
    \o Form(<<Sym("if"), Sym("false"), Num(1), Num(2)>>)

\* (defun f []) (println (f))
EmptyBodySource ==
    Form(<<Sym("defun"), Sym("f"), LBracket, RBracket>>)
    \o Form(<<Sym("println")>> \o Form(<<Sym("f")>>))

\* (defun f [] (def x 1)) (println (f))
DefLastSource ==
    Form(<<Sym("defun"), Sym("f"), LBracket, RBracket>>
         \o Form(<<Sym("def"), Sym("x"), Num(1)>>))
    \o Form(<<Sym("println")>> \o Form(<<Sym("f")>>))

\* (defun f [a b] 0 b) (println (f 1 2)) (println (f 1)) (f 1 2 3)
ArgsSource ==
    Form(<<Sym("defun"), Sym("f"), LBracket, Sym("a"), Sym("b"), RBracket,
           Num(0), Sym("b")>>)
    \o Form(<<Sym("println")>> \o Form(<<Sym("f"), Num(1), Num(2)>>))
    \o Form(<<Sym("println")>> \o Form(<<Sym("f"), Num(1)>>))
    \o Form(<<Sym("f"), Num(1), Num(2), Num(3)>>)

\* (def x 1) (defun f [x] x) (println (f 2))
ShadowSource ==
    Form(<<Sym("def"), Sym("x"), Num(1)>>)
    \o Form(<<Sym("defun"), Sym("f"), LBracket, Sym("x"), RBracket, Sym("x")>>)
    \o Form(<<Sym("println")>> \o Form(<<Sym("f"), Num(2)>>))

\* (def x 1) (defun f [x] (set x 3) x) (println (f 2)) (println x)
SetShadowSource ==
    Form(<<Sym("def"), Sym("x"), Num(1)>>)
    \o Form(<<Sym("defun"), Sym("f"), LBracket, Sym("x"), RBracket>>
            \o Form(<<Sym("set"), Sym("x"), Num(3)>>) \o <<Sym("x")>>)
    \o Form(<<Sym("println")>> \o Form(<<Sym("f"), Num(2)>>))
    \o Form(<<Sym("println"), Sym("x")>>)

\* (defun g [] (yield 1) (yield 2)) (def c (coroutine g))
\* (defun k [] (call c)) (defun h [] (call c) (k)) (h)
RecallSource ==
    Form(<<Sym("defun"), Sym("g"), LBracket, RBracket>> \o YieldForms(1, 2))
    \o Form(<<Sym("def"), Sym("c")>> \o Form(<<Sym("coroutine"), Sym("g")>>))
    \o Form(<<Sym("defun"), Sym("k"), LBracket, RBracket>>
            \o Form(<<Sym("call"), Sym("c")>>))
    \o Form(<<Sym("defun"), Sym("h"), LBracket, RBracket>>
            \o Form(<<Sym("call"), Sym("c")>>) \o Form(<<Sym("k")>>))
    \o Form(<<Sym("h")>>)

\* (defun f [] (+ 1 2 3 (f))) (f)
DeepSource ==
    Form(<<Sym("defun"), Sym("f"), LBracket, RBracket>>
         \o Form(<<Sym("+"), Num(1), Num(2), Num(3)>> \o Form(<<Sym("f")>>)))
    \o Form(<<Sym("f")>>)

\* (def s (read "f")) s s (def t (read "g")) (def u (read "h")) (println s t u)
PoolSource ==
    Form(<<Sym("def"), Sym("s")>> \o Form(<<Sym("read"), Str("f")>>))
    \o <<Sym("s"), Sym("s")>>
    \o Form(<<Sym("def"), Sym("t")>> \o Form(<<Sym("read"), Str("g")>>))
    \o Form(<<Sym("def"), Sym("u")>> \o Form(<<Sym("read"), Str("h")>>))
    \o Form(<<Sym("println"), Sym("s"), Sym("t"), Sym("u")>>)

\* (def t #1) (println (t)) (println println) (1 2) (yield 1)
MiscSource ==
    Form(<<Sym("def"), Sym("t"), Hash, Num(1)>>)
    \o Form(<<Sym("println")>> \o Form(<<Sym("t")>>))
    \o Form(<<Sym("println"), Sym("println")>>)
    \o Form(<<Num(1), Num(2)>>)
    \o Form(<<Sym("yield"), Num(1)>>)

\* (coroutine)
AssertSource == Form(<<Sym("coroutine")>>)

\* (call 1)
BadCallSource == Form(<<Sym("call"), Num(1)>>)

Programs ==
    GenPrograms \cup ConvPrograms \cup TruthPrograms \cup CoArgsPrograms \cup
    {Program("S1", S1), Program("S2", S2), Program("S3", S3), Program("S5", S5),
     Program("S6", S6), Program("arith", ArithSource), Program("set", SetSource),
     Program("string", StringSource), Program("selfcall", SelfCallSource),
     Program("noyield", NoYieldSource), Program("thunkcall", ThunkCallSource),
     Program("nestedif", NestedIfSource), Program("emptybody", EmptyBodySource),
     Program("deflast", DefLastSource), Program("args", ArgsSource),
     Program("shadow", ShadowSource), Program("setshadow", SetShadowSource),
     Program("recall", RecallSource),
     Program("deep", DeepSource),
     Program("pool", PoolSource),
     Program("misc", MiscSource),
     Program("coparam", CoParamSource), Program("yieldout", YieldOutsideSource),
     Program("assert", AssertSource), Program("badcall", BadCallSource)}

(***************************************************************************)
(* The state at the first iteration of the loop of Execute(Vm, Script):    *)
(* the script compiled, InitVM done, the top-level frame pushed.           *)
(***************************************************************************)
\* The Script strings that some LoadString names: the only sl_string objects
\* whose RefCount the VM reads or writes.
LitStrings(S) ==
    {i \in 0..(Len(S.Strings) - 1) :
        \/ \E j \in 1..Len(S.Code) : S.Code[j] = [op |-> "LoadString", arg |-> i]
        \/ \E f \in 1..Len(S.Funcs) : \E j \in 1..Len(S.Funcs[f].Code) :
              S.Funcs[f].Code[j] = [op |-> "LoadString", arg |-> i]}

Init ==
    /\ prog \in Programs
    \* Garbage: the RefCount AddString's local sl_string leaves in each literal
    \* (sl_ref has no initializer): any value may be there.
    /\ \E g \in [LitStrings(CompileScript(prog.toks)) -> (-MaxGarbage)..MaxGarbage] :
          Script = [Garbage |-> g] @@ CompileScript(prog.toks)
    /\ Globals = InitVM
    /\ Stack = <<>>
    /\ Frames = <<NewFrame(0, 0, 0, "main", <<>>)>>
    /\ CurrentFrame = 1
    /\ Coroutines = <<>>
    /\ RefCount = Script.Garbage
    /\ StringPool = EmptyPool
    /\ acts = <<[StopOnReturn |-> FALSE, native |-> "", caller |-> 0,
                 frame |-> 1, base |-> 0]>>
    /\ status = "running"
    /\ printed = <<>>
    /\ halted = FALSE
    /\ last = [op |-> "none", arg |-> 0, frame |-> 0, depth |-> 0,
               native |-> "", caller |-> 0, callee |-> ""]
    /\ returned = NoReturn
    \* CompileScript has returned: the lexer is at the end of the source.
    /\ Lexer = [Source |-> <<>>, Ptr |-> 1, TokenType |-> "EOF"]
    /\ Parser = <<>>
    /\ interned = <<>>

Next ==
    \/ OpDef \/ OpDefonce \/ OpSet \/ OpDefun
    \/ OpLoadBool \/ OpLoadNumber \/ OpLoadString \/ OpLoadSymbol \/ OpLoadFunc
    \/ FuncCallFunc \/ FuncCallOther \/ AssertFail
    \/ Add \/ Sub \/ Mul \/ Div \/ Println \/ If \/ When
    \/ Coroutine \/ Call \/ Yield \/ Done \/ BadCoroutine \/ Read
    \/ OpReturn \/ OpPop \/ OpHalt
    \/ FetchPastEnd \/ FetchFreedFrame

Spec == Init /\ [][Next]_vars

(***************************************************************************)
(* The intern tables on their own: any sequence of AddString and AddNumber *)
(* calls on one script, as the compiler makes them.                        *)
(***************************************************************************)
StringContents == {"a", "b", "c"}
NumberContents == {0, 1, 2}

\* No VM exists while the script is being compiled.
NoVM ==
    /\ Globals = <<>>
    /\ Stack = <<>>
    /\ Frames = <<>>
    /\ CurrentFrame = 0
    /\ Coroutines = <<>>
    /\ RefCount = <<>>
    /\ StringPool = EmptyPool
    /\ acts = <<>>
    /\ printed = <<>>
    /\ halted = FALSE
    /\ last = [op |-> "none", arg |-> 0, frame |-> 0, depth |-> 0,
               native |-> "", caller |-> 0, callee |-> ""]
    /\ returned = NoReturn

NoVMChange ==
    UNCHANGED <<Globals, Stack, Frames, CurrentFrame, Coroutines, RefCount, acts,
                printed, halted, last, returned, StringPool>>

InternInit ==
    /\ prog = [name |-> "intern", k |-> 0, n |-> 0, toks |-> <<>>]
    /\ Script = [Strings |-> <<>>, Numbers |-> <<>>, Funcs |-> <<>>, Code |-> <<>>]
    /\ Lexer = [Source |-> <<>>, Ptr |-> 1, TokenType |-> "EOF"]
    /\ Parser = <<>>
    /\ interned = <<>>
    /\ status = "compiling"
    /\ NoVM

\* One call AddString(Script, v, Size).
InternString ==
    /\ Len(interned) < MaxInternCalls
    /\ \E v \in StringContents :
          /\ Script' = AddString(Script, v).L
          /\ interned' = Append(interned, [table |-> "Strings", Value |-> v,
                                           idx |-> AddString(Script, v).idx])
    /\ UNCHANGED <<prog, Lexer, Parser, status>>
    /\ NoVMChange

\* One call AddNumber(Script, v).
InternNumber ==
    /\ Len(interned) < MaxInternCalls
    /\ \E v \in NumberContents :
          /\ Script' = AddNumber(Script, v).L
          /\ interned' = Append(interned, [table |-> "Numbers", Value |-> v,
                                           idx |-> AddNumber(Script, v).idx])
    /\ UNCHANGED <<prog, Lexer, Parser, status>>
    /\ NoVMChange

InternNext == InternString \/ InternNumber

SpecIntern == InternInit /\ [][InternNext]_vars

(***************************************************************************)
(* A script that keeps growing: CompileScript's loop compiling one new     *)
(* symbol after another at top level.                                      *)
(***************************************************************************)
\* The symbol the next iteration of the loop meets: one not seen before.
FreshSymbol == "s" \o ToString(Len(Script.Strings))

\* One iteration of CompileScript's loop on a source whose next token is a
\* symbol not yet interned: ParseExpr(Script, &Script->Code, &Lexer, true).
CompileFreshSymbol ==
    /\ Len(Script.Strings) <= ByteRange
    /\ LET L == [toks |-> <<Sym(FreshSymbol)>>, pos |-> 1, Strings |-> Script.Strings,
                 Numbers |-> Script.Numbers, Funcs |-> Script.Funcs]
           e == ParseExpr(L, Script.Code, TRUE)
       IN  /\ Script' = [Strings |-> e.L.Strings, Numbers |-> e.L.Numbers,
                         Funcs |-> e.L.Funcs, Code |-> e.Code]
           /\ interned' = Append(interned, [table |-> "Strings", Value |-> FreshSymbol,
                                            idx |-> AddString(L, FreshSymbol).idx])
    /\ UNCHANGED <<prog, Lexer, Parser, status>>
    /\ NoVMChange

CapacityNext == CompileFreshSymbol

SpecCapacity == InternInit /\ [][CapacityNext]_vars

(***************************************************************************)
(* The defun case of ParseReserved on (defun f [p1 ... pK] 0), one step per *)
(* iteration of its loop over the bracket list, for K up to more than      *)
(* FuncMaxArgs.  Parser[1] holds Func (the new sl_func) and ArgIndex; the  *)
(* lexer is the token-level one.                                           *)
(***************************************************************************)
\* The state on entry to the loop: `(defun f [` has been read.
DefunInit ==
    /\ \E K \in 0..MaxDefunParams : \E names \in [1..K -> {"a", "b"}] :
          /\ prog = [name |-> "defun", k |-> K, n |-> 0,
                     toks |-> Form(<<Sym("defun"), Sym("f"), LBracket>>
                                   \o [i \in 1..K |-> Sym(names[i])]
                                   \o <<RBracket, Num(0)>>)]
          /\ Lexer = [toks |-> prog.toks, pos |-> 5]
    /\ Script = [Strings |-> <<"f">>, Numbers |-> <<>>, Funcs |-> <<>>, Code |-> <<>>]
    /\ Parser = <<[Func |-> [Code |-> <<>>, StringIndex |-> 0,
                             ArgCount |-> Indeterminate, Args |-> <<>>],
                   ArgIndex |-> 0]>>
    /\ interned = <<>>
    /\ status = "compiling"
    /\ NoVM

\* One iteration of while (Lexer->TokenType == TokenType_Symbol): the
\* diagnostic does not stop the store Func->Args[ArgIndex] = AddString(...).
\* From ArgIndex = FuncMaxArgs on the store is outside the sl_func object and
\* the heap it damages may or may not be missed afterwards.
DefunArg ==
    /\ status = "compiling"
    /\ Parser # <<>>
    /\ CurTok(Lexer).type = "Symbol"
    /\ Script' = AddString(Script, CurTok(Lexer).str).L
    /\ Parser' = [Parser EXCEPT ![1].Func.Args =
                                    Append(@, AddString(Script, CurTok(Lexer).str).idx),
                                ![1].ArgIndex = @ + 1]
    /\ Lexer' = NextToken(Lexer)
    /\ IF Parser[1].ArgIndex >= FuncMaxArgs
       THEN status' \in {"compiling", "undefined"}
       ELSE status' = status
    /\ UNCHANGED <<prog, interned>>
    /\ NoVMChange

\* From the end of that loop to the end of CompileScript: the Def prologue,
\* ArgCount, the body, Return, Funcs.push_back, Defun, and Halt at EOF.
DefunRest ==
    /\ status = "compiling"
    /\ Parser # <<>>
    /\ CurTok(Lexer).type # "Symbol"
    /\ LET L == [toks |-> Lexer.toks, pos |-> Lexer.pos, Strings |-> Script.Strings,
                 Numbers |-> Script.Numbers, Funcs |-> Script.Funcs]
           b == ParseBody(NextToken(L), EmitArgDefs(Parser[1].Func.Args))
           Func == [Parser[1].Func EXCEPT !.Code = Emit(b.Code, "Return", 0),
                                          !.ArgCount = Parser[1].ArgIndex]
           L2 == [NextToken(b.L) EXCEPT !.Funcs = Append(@, Func)]
           c == CompileLoop(L2, Emit(Script.Code, "Defun", Len(L2.Funcs) - 1), <<>>)
       IN  /\ Script' = [Strings |-> c.L.Strings, Numbers |-> c.L.Numbers,
                         Funcs |-> c.L.Funcs, Code |-> Emit(c.Code, "Halt", 0)]
           /\ Lexer' = [toks |-> c.L.toks, pos |-> c.L.pos]
    /\ Parser' = <<>>
    /\ status' = "compiled"
    /\ UNCHANGED <<prog, interned>>
    /\ NoVMChange

SpecDefun == DefunInit /\ [][DefunArg \/ DefunRest]_vars

(***************************************************************************)
(* CompileScript step by step, on a source text of characters.  Lexer.Ptr  *)
(* is an index into Source; the character at Len(Source) + 1 is the NUL.   *)
(* Parser holds one entry per call of ParseExpr that is inside its         *)
(* argument loop ("args") or is compiling a thunk ("hash").                *)
(***************************************************************************)
SourceChars == {"(", ")", "]", "#", "a", "1", " ", "@", "\""}

Sources == UNION {[1..n -> SourceChars] : n \in 0..MaxSourceLen}

\* *Ptr
CharAt(L, p) == IF p <= Len(L.Source) THEN L.Source[p] ELSE ""

IsDigit(Char) == Char \in {"0", "1", "2", "3", "4", "5", "6", "7", "8", "9"}

IsSymbol(Char) ==
    Char \in {"a", "b", "c", "d", "e", "f", "g", "h", "i", "j", "k", "l", "m", "n",
              "o", "p", "q", "r", "s", "t", "u", "v", "w", "x", "y", "z",
              "A", "B", "C", "D", "E", "F", "G", "H", "I", "J", "K", "L", "M", "N",
              "O", "P", "Q", "R", "S", "T", "U", "V", "W", "X", "Y", "Z",
              "_", "-", "+", "*", "/", "?", "."}

RECURSIVE Scan(_, _, _)
\* The loops of NextToken and ParseSymbol that advance Ptr: over blanks, over
\* the characters of a symbol, of a number, or up to the closing quote of a
\* string (0 when the scan runs past the NUL).
Scan(L, p, what) ==
    LET c == CharAt(L, p)
        more == CASE what = "blank" -> c \in {" ", "\n", "\t"}
                  [] what = "symbol" -> IsSymbol(c) \/ IsDigit(c)
                  [] what = "number" -> IsDigit(c) \/ c = "."
                  [] what = "string" -> c # "\""
    IN  IF what = "string" /\ p > Len(L.Source) THEN 0
        ELSE IF more THEN Scan(L, p + 1, what) ELSE p

RECURSIVE Atof(_)
\* atof on the digits of a number token (the sources drawn have no '.').
Atof(text) ==
    IF text = <<>> \/ ~IsDigit(text[Len(text)]) THEN 0
    ELSE 10 * Atof(SubSeq(text, 1, Len(text) - 1))
         + (CHOOSE d \in 0..9 : ToString(d) = text[Len(text)])

\* A token read: the lexer with TokenType, the value of the union
\* {NumberVal, StringVal} and Ptr set.
Token(L, type, kind, v, ptr) ==
    [L EXCEPT !.TokenType = type, !.Val = [kind |-> kind, v |-> v], !.Ptr = ptr]

\* NextToken(Lexer), on characters.  ub: a string without closing quote is
\* scanned past the NUL; a string token read while the union holds a number
\* runs delete[] on the bits of that number.
LexerNextToken(L) ==
    LET p == Scan(L, L.Ptr, "blank")
        c == CharAt(L, p)
        At == [L EXCEPT !.Ptr = p]
    IN  CASE c = "" -> [At EXCEPT !.TokenType = "EOF"]
          [] c = "(" -> [At EXCEPT !.TokenType = "LeftParen", !.Ptr = p + 1]
          [] c = ")" -> [At EXCEPT !.TokenType = "RightParen", !.Ptr = p + 1]
          [] c = "[" -> [At EXCEPT !.TokenType = "LeftBracket", !.Ptr = p + 1]
          [] c = "]" -> [At EXCEPT !.TokenType = "RightBracket", !.Ptr = p + 1]
          [] c = "#" -> [At EXCEPT !.TokenType = "Hash", !.Ptr = p + 1]
          [] c = "\"" ->
                LET q == Scan(L, p + 1, "string") IN
                IF q = 0 \/ L.Val.kind = "number"
                THEN [At EXCEPT !.TokenType = "String", !.ub = TRUE]
                ELSE Token(L, "String", "string", SubSeq(L.Source, p + 1, q - 1), q + 1)
          [] c = "'" ->
                IF IsSymbol(CharAt(L, p + 1))
                THEN LET q == Scan(L, p + 1, "symbol")
                     IN  Token(L, "String", "string", SubSeq(L.Source, p + 1, q - 1), q)
                ELSE [At EXCEPT !.TokenType = "String", !.Ptr = p + 1]
          [] IsDigit(c) ->
                LET q == Scan(L, p, "number")
                IN  Token(L, "Number", "number", Atof(SubSeq(L.Source, p, q - 1)), q)
          [] IsSymbol(c) ->
                LET q == Scan(L, p, "symbol")
                IN  Token(L, "Symbol", "string", SubSeq(L.Source, p, q - 1), q)
          [] OTHER -> At

TokenTypes == {"EOF", "LeftParen", "RightParen", "LeftBracket", "RightBracket",
               "Hash", "String", "Number", "Symbol"}

CompileInit ==
    /\ \E src \in Sources :
          /\ prog = [name |-> "source", k |-> 0, n |-> 0, toks |-> src]
          /\ Lexer = [Source |-> src, Ptr |-> 1, TokenType |-> "Unset",
                      Val |-> [kind |-> "null", v |-> 0], ub |-> FALSE]
    /\ Script = [Strings |-> <<>>, Numbers |-> <<>>, Funcs |-> <<>>, Code |-> <<>>]
    /\ Parser = <<>>
    /\ interned = <<>>
    /\ status = "start"
    /\ NoVM

\* InitLexer: `sl_lexer Lexer;` leaves TokenType unset, so when the first
\* NextToken recognises nothing the type read afterwards is any value.
InitLexer ==
    /\ status = "start"
    /\ LET L == LexerNextToken(Lexer) IN
       IF L.TokenType = "Unset"
       THEN \E t \in TokenTypes \cup {"Garbage"} : Lexer' = [L EXCEPT !.TokenType = t]
       ELSE Lexer' = L
    /\ status' = IF Lexer'.ub THEN "undefined" ELSE "compiling"
    /\ UNCHANGED <<prog, Script, Parser, interned>>
    /\ NoVMChange

\* The parameters of the ParseExpr call the compiler is about to make: from
\* CompileScript's loop, from the argument loop, or for the body of a thunk.
Site ==
    IF Parser = <<>> THEN [PopUnused |-> TRUE, into |-> 0]
    ELSE IF Parser[Len(Parser)].kind = "args"
    THEN [PopUnused |-> FALSE, into |-> Parser[Len(Parser)].into]
    ELSE [PopUnused |-> FALSE, into |-> Len(Parser)]

\* The code buffer `Code` points to: Script->Code, or the Func->Code of the
\* thunk that Parser[into] is compiling.
CodeInto(into) == IF into = 0 THEN Script.Code ELSE Parser[into].Code

\* The loop tests that lead to a call of ParseExpr.  Code and ArgCount are
\* capped here, and the depth of the calls in ExprLeftParen and ExprHash.
CallsParseExpr ==
    /\ status = "compiling"
    /\ Len(CodeInto(Site.into)) < MaxCode
    /\ IF Parser = <<>> THEN Lexer.TokenType # "EOF"
       ELSE IF Parser[Len(Parser)].kind = "args"
       THEN Lexer.TokenType # "RightParen" /\ Parser[Len(Parser)].ArgCount < MaxCode
       ELSE ~Parser[Len(Parser)].parsed

\* Emit(Code, OpCode, Arg) on the buffer `into` names.
EmitInto(C, into, OpCode, Arg) ==
    IF into = 0 THEN [C EXCEPT !.S.Code = Emit(@, OpCode, Arg)]
    ELSE [C EXCEPT !.P[into].Code = Emit(@, OpCode, Arg)]

\* The end of ParseExpr: the trailing Pop, then the caller goes on (ArgCount++
\* in the argument loop; a thunk's body is parsed).
Return(C, PopUnused, into) ==
    LET e == IF PopUnused THEN EmitInto(C, into, "Pop", 0) ELSE C
        n == Len(e.P)
    IN  IF n = 0 THEN e
        ELSE IF e.P[n].kind = "args" THEN [e EXCEPT !.P[n].ArgCount = @ + 1]
        ELSE [e EXCEPT !.P[n].parsed = TRUE]

\* What leaves the compiler's state as it is but for the lexer and status.
ParserStep(C, L) ==
    /\ Script' = C.S
    /\ Parser' = C.P
    /\ Lexer' = L
    /\ status' = IF L.ub THEN "undefined" ELSE status
    /\ UNCHANGED <<prog, interned>>
    /\ NoVMChange

\* ParseExpr, cases String, Number and Symbol.  A token type left over from
\* an earlier token or never set goes with whatever the union holds.
ExprAtom ==
    /\ CallsParseExpr
    /\ Lexer.TokenType \in {"String", "Number", "Symbol"}
    /\ LET t == Lexer.TokenType
           v == Lexer.Val.v
           C == [S |-> Script, P |-> Parser]
       IN  IF Lexer.Val.kind # (IF t = "Number" THEN "number" ELSE "string")
           THEN ParserStep(C, [Lexer EXCEPT !.ub = TRUE])
           ELSE LET e == CASE t = "String" ->
                                EmitInto([C EXCEPT !.S = AddString(Script, v).L], Site.into,
                                         "LoadString", AddString(Script, v).idx)
                           [] t = "Number" ->
                                EmitInto([C EXCEPT !.S = AddNumber(Script, v).L], Site.into,
                                         "LoadNumber", AddNumber(Script, v).idx)
                           [] t = "Symbol" /\ v = <<"t", "r", "u", "e">> ->
                                EmitInto(C, Site.into, "LoadBool", 1)
                           [] t = "Symbol" /\ v = <<"f", "a", "l", "s", "e">> ->
                                EmitInto(C, Site.into, "LoadBool", 0)
                           [] OTHER ->
                                EmitInto([C EXCEPT !.S = AddString(Script, v).L], Site.into,
                                         "LoadSymbol", AddString(Script, v).idx)
                IN  ParserStep(Return(e, Site.PopUnused, Site.into), LexerNextToken(Lexer))

\* ParseExpr, default case: no token is consumed.
ExprDefault ==
    /\ CallsParseExpr
    /\ Lexer.TokenType \notin {"LeftParen", "Hash", "String", "Number", "Symbol"}
    /\ ParserStep(Return([S |-> Script, P |-> Parser], Site.PopUnused, Site.into), Lexer)

\* ParseExpr, case LeftParen, up to the argument loop.  (ParseReserved
\* returns false: no symbol of these sources is def, defonce, set or defun.)
ExprLeftParen ==
    /\ CallsParseExpr
    /\ Len(Parser) < MaxDepth
    /\ Lexer.TokenType = "LeftParen"
    /\ ParserStep([S |-> Script,
                   P |-> Append(Parser, [kind |-> "args", ArgCount |-> 0, parsed |-> FALSE,
                                         PopUnused |-> Site.PopUnused, into |-> Site.into,
                                         Code |-> <<>>, StringIndex |-> 0])],
                  LexerNextToken(Lexer))

\* ParseExpr, case LeftParen, from the end of the argument loop.
ArgsClose ==
    /\ status = "compiling"
    /\ Parser # <<>>
    /\ Parser[Len(Parser)].kind = "args"
    /\ Lexer.TokenType = "RightParen"
    /\ LET f == Parser[Len(Parser)]
           C == [S |-> Script, P |-> SubSeq(Parser, 1, Len(Parser) - 1)]
           e == IF f.ArgCount > 0
                THEN EmitInto(C, f.into, "FuncCall", (f.ArgCount % ByteRange) - 1)
                ELSE C
       IN  ParserStep(Return(e, f.PopUnused, f.into), LexerNextToken(Lexer))

\* ParseExpr, case Hash, up to the call of ParseExpr for the thunk's body.
ExprHash ==
    /\ CallsParseExpr
    /\ Len(Parser) < MaxDepth
    /\ Lexer.TokenType = "Hash"
    /\ ParserStep([S |-> AddString(Script, <<"#">>).L,
                   P |-> Append(Parser, [kind |-> "hash", ArgCount |-> 0, parsed |-> FALSE,
                                         PopUnused |-> Site.PopUnused, into |-> Site.into,
                                         Code |-> <<>>,
                                         StringIndex |-> AddString(Script, <<"#">>).idx])],
                  LexerNextToken(Lexer))

\* ParseExpr, case Hash, once the body is compiled.
HashReturn ==
    /\ status = "compiling"
    /\ Parser # <<>>
    /\ Parser[Len(Parser)].kind = "hash"
    /\ Parser[Len(Parser)].parsed
    /\ LET f == Parser[Len(Parser)]
           Func == [Code |-> Emit(f.Code, "Return", 0), StringIndex |-> f.StringIndex,
                    ArgCount |-> Indeterminate, Args |-> <<>>]
           C == [S |-> [Script EXCEPT !.Funcs = Append(@, Func)],
                 P |-> SubSeq(Parser, 1, Len(Parser) - 1)]
           e == EmitInto(C, f.into, "LoadFunc", Len(C.S.Funcs) - 1)
       IN  ParserStep(Return(e, f.PopUnused, f.into), Lexer)

\* CompileScript once its loop has met EOF: Emit(&Script->Code, OpCode_Halt).
CompileHalt ==
    /\ status = "compiling"
    /\ Parser = <<>>
    /\ Lexer.TokenType = "EOF"
    /\ Script' = [Script EXCEPT !.Code = Emit(@, "Halt", 0)]
    /\ status' = "compiled"
    /\ UNCHANGED <<prog, Lexer, Parser, interned>>
    /\ NoVMChange

CompileNext ==
    \/ InitLexer \/ ExprAtom \/ ExprDefault \/ ExprLeftParen \/ ArgsClose
    \/ ExprHash \/ HashReturn \/ CompileHalt

SpecCompile == CompileInit /\ [][CompileNext]_vars

(***************************************************************************)
(* Properties.                                                             *)
(***************************************************************************)
Min(a, b) == IF a < b THEN a ELSE b

IsGen == prog.name = "gen"

\* The code pointer of the top-level frame.
TopPc == Frames[1].pc

\* C1: coroutine producer ordering.  In scenario S4 with k yields and n calls
\* made from the top level, the i-th (println (call c)), i <= k, prints the
\* i-th yielded value: once the top-level code is past that form the i-th
\* output line exists, and it is the i-th value.
C1_ProducerOrder ==
    IsGen =>
        \A i \in 1..Min(prog.k, prog.n) :
            /\ Len(printed) >= i => printed[i] = FormatNumber(i)
            /\ TopPc >= Script.Forms[2 + i] => Len(printed) >= i

C1_Witness ==
    /\ IsGen
    /\ prog.k >= 2
    /\ prog.n >= prog.k
    /\ Len(printed) >= prog.k
    /\ printed[prog.k] = FormatNumber(prog.k)

\* The last step was the FuncCall that ran the native done?.
DoneDispatched == last.op = "FuncCall" /\ last.callee = "done?"

\* C2 as stated: after exactly k calls on a coroutine of k yields, done?
\* pushes Bool(true).
C2_DoneAfterKCalls ==
    (IsGen /\ prog.n = prog.k /\ DoneDispatched) =>
        (PopValue(Stack).type = "Bool" /\ PopValue(Stack).v = TRUE)

\* C2 amended: after exactly k calls on a coroutine of k yields, done? pushes
\* Bool(false): the frame is suspended after its k-th yield (or, for k = 0,
\* was never made) and has not executed Return.
C2_NotDoneAfterKCalls ==
    (IsGen /\ prog.n = prog.k /\ DoneDispatched) =>
        (PopValue(Stack).type = "Bool" /\ PopValue(Stack).v = FALSE)

C2_Witness ==
    /\ IsGen
    /\ prog.n = prog.k
    /\ prog.k >= 1
    /\ DoneDispatched
    /\ PopValue(Stack).type = "Bool"
    /\ PopValue(Stack).v = FALSE

\* Programs of the model in which no native is given a value of a wrong type.
NoTypeErrors == prog.name \in {"S1", "S2", "S3", "S5", "S6", "set"}

\* The top-level code is at the boundary that follows one of its forms.
AtFormBoundary ==
    /\ CurrentFrame = 1
    /\ \E j \in 1..Len(Script.Forms) : TopPc = Script.Forms[j]

\* C3: stack discipline.  In a program without type errors the operand stack
\* is empty each time the top-level code is at the boundary after a form.
C3_StackDiscipline ==
    (NoTypeErrors /\ AtFormBoundary) => StackTop = 0

\* C4: `call` returns to its caller once the coroutine yields or finishes.
\* No activation started by `call` is live while the frame that made the call
\* is the current frame, and no such activation dispatches an instruction of
\* that frame.
C4_CallReturnsToCaller ==
    /\ \A i \in 1..Len(acts) : acts[i].native = "call" => CurrentFrame # acts[i].caller
    /\ last.native = "call" => last.frame # last.caller

\* C5: Halt terminates execution.  Once Halt has been dispatched no activation
\* is left to fetch, and no fetch is made past the end of a code buffer.
C5_HaltTerminates ==
    /\ halted => ~Running
    /\ last.op # "PastEnd"

\* The frames that exist (not deleted) whose Coroutine back-link is c.
LiveFramesOf(c) == {f \in 1..Len(Frames) : Frames[f].alive /\ Frames[f].Coroutine = c}

\* C6: at most one existing frame holds a given coroutine's back-link.
C6_OneFramePerCoroutine ==
    \A c \in 1..Len(Coroutines) : Cardinality(LiveFramesOf(c)) <= 1

RECURSIVE OnChain(_, _)
\* Frame f is on the Parent chain that starts at frame `from`.
OnChain(f, from) ==
    IF from = 0 THEN FALSE
    ELSE IF from = f THEN TRUE
    ELSE OnChain(f, Frames[from].Parent)

FramesOf(c) == {f \in 1..Len(Frames) : Frames[f].Coroutine = c}
NotStarted(c) == FramesOf(c) = {}
Terminated(c) == FramesOf(c) # {} /\ \A f \in FramesOf(c) : ~Frames[f].alive
Suspended(c) == \E f \in LiveFramesOf(c) : ~OnChain(f, CurrentFrame)

\* C7: Co->Frame is null when the coroutine has not been started, null again
\* once its body has executed Return, and non-null while it is suspended.
C7_FrameNullIffIdle ==
    \A c \in 1..Len(Coroutines) :
        /\ (NotStarted(c) \/ Terminated(c)) => Coroutines[c].Frame = 0
        /\ Suspended(c) => Coroutines[c].Frame # 0

\* The live value slots that hold a String referencing Script string s.
SlotCount(s) ==
    Cardinality({i \in 1..Len(Stack) : Stack[i] = StringValue(s)})
    + Cardinality({<<f, v>> \in (1..Len(Frames)) \X VarIds :
                      Frames[f].alive /\ Frames[f].Vars[v] = StringValue(s)})
    + Cardinality({n \in DOMAIN Globals : Globals[n] = StringValue(s)})

\* C8: the RefCount of each string equals the number of live value slots that
\* reference it (stated for the runs in which every count started at 0).
C8_RefCountIsSlotCount ==
    (\A s \in DOMAIN RefCount : Script.Garbage[s] = 0) =>
        \A s \in DOMAIN RefCount : RefCount[s] = SlotCount(s)

\* C9: when `if` or `when` has invoked a thunk and returns, the current frame
\* is the frame that invoked the native, the thunk's frame has been deleted,
\* and exactly one value was pushed.
C9_ThunkRunsToItsReturn ==
    (returned.how # "none" /\ returned.native \in {"if", "when"}) =>
        /\ CurrentFrame = returned.caller
        /\ ~Frames[returned.frame].alive
        /\ StackTop = returned.base + 1

\* C10: when the Return of a frame made by FuncCall for a user function has
\* executed, the operand stack is the stack beneath the callee plus exactly
\* one value.
C10_ReturnLeavesOneValue ==
    (last.op = "Return" /\ Frames[last.frame].how = "FuncCall") =>
        /\ StackTop = Len(Frames[last.frame].below) + 1
        /\ SubSeq(Stack, 1, Len(Frames[last.frame].below)) = Frames[last.frame].below

\* The current frame was made by FuncCall for the function of a "conv"
\* program and its prologue of Def instructions has just been executed.
PrologueDone ==
    /\ prog.name = "conv"
    /\ CurrentFrame # 0
    /\ Cur.alive
    /\ Cur.how = "FuncCall"
    /\ Cur.pc = Script.Funcs[1].ArgCount + 1

\* C11: calling convention.  When a function of K parameters is called with N
\* actuals 1..N, after the prologue the callee frame holds Vars[pi] = i for
\* i <= min(K, N), Vars[pi] = Nil for N < i <= K, and the operand stack is the
\* stack beneath the callee: no actual and no callee value is left on it.
C11_CallingConvention ==
    PrologueDone =>
        /\ Script.Funcs[1].ArgCount = prog.k
        /\ \A i \in 1..prog.k :
              Cur.Vars[Script.Funcs[1].Args[i]] =
                  IF i <= prog.n THEN CreateNumber(i) ELSE Nil
        /\ Stack = Cur.below

C11_Witness ==
    /\ PrologueDone
    /\ prog.k = 2
    /\ prog.n = 2
    /\ Cur.Vars[Script.Funcs[1].Args[1]] = CreateNumber(1)
    /\ Cur.Vars[Script.Funcs[1].Args[2]] = CreateNumber(2)
    /\ Stack = <<NativeValue("println")>>

\* The variable slots of every frame other than slot s of frame f are the
\* same in the next state.
OtherSlotsUnchanged(f, s) ==
    /\ Len(Frames') = Len(Frames)
    /\ \A g \in 1..Len(Frames) : \A v \in VarIds :
          (g # f \/ v # s) => Frames'[g].Vars[v] = Frames[g].Vars[v]

\* C12: a step that executes `Defonce s` in a frame whose Vars[s] is non-Nil
\* leaves Vars[s], every other slot, Globals and the operand stack unchanged;
\* when Vars[s] is Nil the step pops the top of the (non-empty) stack into
\* Vars[s] and changes no other slot.
C12_DefonceEffect ==
    [][(CanFetch /\ Instr.op = "Defonce") =>
          /\ Globals' = Globals
          /\ CurrentFrame' = CurrentFrame
          /\ OtherSlotsUnchanged(CurrentFrame, Instr.arg)
          /\ IF Cur.Vars[Instr.arg].type # "Nil"
             THEN /\ Frames'[CurrentFrame].Vars[Instr.arg] = Cur.Vars[Instr.arg]
                  /\ Stack' = Stack
             ELSE StackTop > 0 =>
                     Stack = Append(Stack', Frames'[CurrentFrame].Vars[Instr.arg])
      ]_vars

\* After (defonce k 1) (defonce k 2) the variable k holds 1 and the 2 is
\* still on the stack.
C12_Witness ==
    /\ prog.name = "S5"
    /\ last.op = "Defonce"
    /\ Stack = <<CreateNumber(2)>>
    /\ Cur.Vars[0] = CreateNumber(1)

\* The frames made for a thunk by `if` or `when`.
ThunkFrames == {f \in 1..Len(Frames) : Frames[f].how = "thunk"}

\* The kinds of condition value of a "truth" program that are Nil or Bool(false).
FalsyCondition == prog.k \in {1, 2}

\* The last step was the FuncCall that ran println for the j-th time.
PrintlnDone(j) == last.op = "FuncCall" /\ last.callee = "println" /\ Len(printed) = j

\* C13: truthiness parity.  In (println (if c #1 #2)) (println (when c #1)),
\* `if` runs its second thunk and `when` pushes Nil without running a thunk
\* exactly when c is Nil or Bool(false); for true, 0, 7, "", "a", a Func, a
\* NativeFunc and a Coroutine the first thunk runs; one thunk runs per `if`.
C13_TruthinessParity ==
    prog.name = "truth" =>
        /\ Len(printed) >= 1 =>
              printed[1] = IF FalsyCondition THEN FormatNumber(2) ELSE FormatNumber(1)
        /\ PrintlnDone(1) => Cardinality(ThunkFrames) = 1
        /\ Len(printed) >= 2 =>
              printed[2] = IF FalsyCondition THEN "nil" ELSE FormatNumber(1)
        /\ PrintlnDone(2) =>
              Cardinality(ThunkFrames) = IF FalsyCondition THEN 1 ELSE 2

\* The number 0 as condition: both natives ran their first thunk.
C13_Witness ==
    /\ prog.name = "truth"
    /\ prog.k = 4
    /\ PrintlnDone(2)
    /\ printed = <<FormatNumber(1), FormatNumber(1)>>

\* The next instruction is a FuncCall that runs `call` on a coroutine made
\* from a function.
CallsCoroutine ==
    /\ CanFetch
    /\ Instr.op = "FuncCall"
    /\ Instr.arg >= 1
    /\ Callee = NativeValue("call")
    /\ CallArgs[1].type = "Coroutine"
    /\ Coroutines[CallArgs[1].v].Func # Indeterminate

\* The extra arguments of the call, or one Nil when there are none.
ExtraArgsOrNil ==
    IF Len(CallArgs) > 1 THEN SubSeq(CallArgs, 2, Len(CallArgs)) ELSE <<Nil>>

YieldsOutsideCoroutine ==
    /\ CanFetch
    /\ Instr.op = "FuncCall"
    /\ Callee = NativeValue("yield")
    /\ Cur.Coroutine = 0

\* C16: a step that runs `yield` in a frame with a null coroutine back-link
\* leaves the current frame, every coroutine's suspended frame, every
\* variable slot and Globals as they were, and the operand stack as it was
\* once the callee and its arguments were popped.
C16_YieldOutsideIgnored ==
    [][YieldsOutsideCoroutine =>
          /\ CurrentFrame' = CurrentFrame
          /\ Coroutines' = Coroutines
          /\ Globals' = Globals
          /\ Len(Frames') = Len(Frames)
          /\ \A g \in 1..Len(Frames) :
                Frames'[g].Vars = Frames[g].Vars /\ Frames'[g].alive = Frames[g].alive
          /\ Stack' = Rest
      ]_vars

\* The last step ran `yield` in frame f, whose back-link is null.
YieldIgnoredIn(f) ==
    /\ last.op = "FuncCall"
    /\ last.callee = "yield"
    /\ last.frame = f
    /\ CurrentFrame = f
    /\ Frames[f].Coroutine = 0

\* `yield` was ignored in a thunk that runs inside a coroutine's frame.
C16_Witness ==
    \E f \in 1..Len(Frames) :
        /\ YieldIgnoredIn(f)
        /\ Frames[f].how = "thunk"
        /\ Frames[f].Parent # 0
        /\ Frames[Frames[f].Parent].Coroutine # 0

\* The calls made before the i-th call on the same table.
EarlierCalls(i) == {j \in 1..(i - 1) : interned[j].table = interned[i].table}

\* The table the i-th call was made on, as it is now.
TableOf(i) == IF interned[i].table = "Strings" THEN Script.Strings ELSE Script.Numbers

\* C17: intern determinism.  Over every sequence of AddString and AddNumber
\* calls, two calls on one table return the same index iff their contents are
\* equal, a new content gets the number of distinct contents seen before it,
\* and every index returned still designates the content it was returned for.
C17_InternDeterminism ==
    \A i \in 1..Len(interned) :
        /\ \A j \in EarlierCalls(i) :
              (interned[j].idx = interned[i].idx) <=> (interned[j].Value = interned[i].Value)
        /\ (\A j \in EarlierCalls(i) : interned[j].Value # interned[i].Value) =>
              interned[i].idx = Cardinality({interned[j].Value : j \in EarlierCalls(i)})
        /\ interned[i].idx + 1 <= Len(TableOf(i))
        /\ TableOf(i)[interned[i].idx + 1] = interned[i].Value

\* "a", "b", "a" and then the number 2 were interned.
C17_Witness ==
    /\ Len(interned) = 4
    /\ \A i \in 1..3 : interned[i].table = "Strings"
    /\ interned[4].table = "Numbers"
    /\ <<interned[1].Value, interned[2].Value, interned[3].Value>> = <<"a", "b", "a">>
    /\ <<interned[1].idx, interned[2].idx, interned[3].idx>> = <<0, 1, 0>>
    /\ interned[4].Value = 2
    /\ interned[4].idx = 0
    /\ Script.Strings = <<"a", "b">>

\* C18: intern-table capacity.  The compiler never lets a table grow past
\* the 256 entries a one-byte operand can name, so the operand of every
\* LoadSymbol emitted equals the full index AddString returned for its symbol.
C18_OperandIsInternIndex ==
    /\ Len(Script.Strings) <= ByteRange
    /\ \A i \in 1..Len(interned) :
          Script.Code[2 * i - 1] = [op |-> "LoadSymbol", arg |-> interned[i].idx]

\* C20: a step that executes `LoadSymbol s` and keeps the VM running has a
\* net operand-stack effect of exactly +1, in however many frames of the
\* current frame chain s is bound.
C20_LoadSymbolPushesOne ==
    [][(CanFetch /\ Instr.op = "LoadSymbol" /\ status' = "running") =>
          Len(Stack') = Len(Stack) + 1
      ]_vars

\* The step made a call of NextToken.
CallsNextToken == InitLexer \/ ExprAtom \/ ExprLeftParen \/ ArgsClose \/ ExprHash

\* C19: compilation terminates.  Every call of NextToken that returns
\* normally either reports EOF or has advanced the read pointer by at least
\* one character.
C19_NextTokenAdvances ==
    [][(CallsNextToken /\ status' # "undefined") =>
          (Lexer'.TokenType = "EOF" \/ Lexer'.Ptr > Lexer.Ptr)
      ]_vars

\* The frames of the current frame chain whose slot s is non-Nil.
BoundIn(s) ==
    {f \in 1..Len(Frames) : OnChain(f, CurrentFrame) /\ Frames[f].Vars[s].type # "Nil"}

\* What the symbol s resolves to: the slot of the outermost frame of the
\* chain that binds it, else the global of that name, else Nil.
Resolved(s) ==
    IF BoundIn(s) # {}
    THEN Frames[CHOOSE f \in BoundIn(s) : \A g \in BoundIn(s) : OnChain(f, g)].Vars[s]
    ELSE IF Script.Strings[s + 1] \in DOMAIN Globals THEN Globals[Script.Strings[s + 1]]
    ELSE Nil

\* C21: after a step that executes `LoadSymbol s` the top of the operand
\* stack is Vars[s] of the outermost frame of the current chain whose slot s
\* is non-Nil; when no frame of the chain binds s it is Globals[name(s)] if
\* present and Nil otherwise.  The step changes no frame slot and no global.
C21_LoadSymbolResolution ==
    [][(CanFetch /\ Instr.op = "LoadSymbol" /\ status' = "running") =>
          /\ Stack' # <<>>
          /\ PopValue(Stack').type = Resolved(Instr.arg).type
          /\ PopValue(Stack').v = Resolved(Instr.arg).v
          /\ Globals' = Globals
          /\ Len(Frames') = Len(Frames)
          /\ \A f \in 1..Len(Frames) : Frames'[f].Vars = Frames[f].Vars
      ]_vars

\* In (def x 1) (defun f [x] x) the body's `x` has been loaded with x bound
\* to 2 in f's frame and to 1 in the top-level frame: the 1 is on top.
C21_Witness ==
    /\ prog.name = "shadow"
    /\ last.op = "LoadSymbol"
    /\ Cardinality(BoundIn(last.arg)) = 2
    /\ Stack = <<NativeValue("println"), CreateNumber(2), CreateNumber(1)>>

\* C22: a step that executes `Set s` pops exactly one value and makes
\* exactly one write: into Vars[s] of the innermost frame of the chain whose
\* slot s is non-Nil, every other slot and Globals staying as they are; when
\* no frame of the chain binds s the value goes to Globals[name(s)] and no
\* frame slot changes.
C22_SetWritesOnce ==
    [][(CanFetch /\ Instr.op = "Set" /\ status' = "running" /\ Stack # <<>>) =>
          /\ Stack' = PopRest(Stack)
          /\ IF BoundIn(Instr.arg) # {}
             THEN LET f == CHOOSE f \in BoundIn(Instr.arg) :
                              \A g \in BoundIn(Instr.arg) : OnChain(g, f)
                  IN  /\ Frames'[f].Vars[Instr.arg].type = PopValue(Stack).type
                      /\ Frames'[f].Vars[Instr.arg].v = PopValue(Stack).v
                      /\ OtherSlotsUnchanged(f, Instr.arg)
                      /\ Globals' = Globals
             ELSE /\ Globals' = GlobalsWith(Globals, Script.Strings[Instr.arg + 1],
                                            PopValue(Stack))
                  /\ Len(Frames') = Len(Frames)
                  /\ \A f \in 1..Len(Frames) : Frames'[f].Vars = Frames[f].Vars
      ]_vars

\* C23: every function the compiler appends to Funcs has an ArgCount of at
\* most FuncMaxArgs, and the compiler writes only Args[0..7] of the function
\* it is building, also when the bracket list of a defun names more than 8
\* symbols.
C23_FormalParameterBound ==
    /\ \A f \in 1..Len(Script.Funcs) :
          /\ Script.Funcs[f].ArgCount \in 0..FuncMaxArgs
          /\ Len(Script.Funcs[f].Args) <= FuncMaxArgs
    /\ \A p \in 1..Len(Parser) : Len(Parser[p].Func.Args) <= FuncMaxArgs

\* The activations of Execute that `call` started on the coroutine frame f.
CallsOn(f) == {i \in 1..Len(acts) : acts[i].native = "call" /\ acts[i].frame = f}

\* The frame that executed the most recent `call` on the coroutine frame f.
LastCaller(f) == acts[CHOOSE i \in CallsOn(f) : \A j \in CallsOn(f) : j <= i].caller

\* The step is a yield in a coroutine frame or the Return of a coroutine body.
LeavesCoroutine ==
    /\ CanFetch
    /\ Cur.Coroutine # 0
    /\ CallsOn(CurrentFrame) # {}
    /\ \/ Instr.op = "Return"
       \/ Instr.op = "FuncCall" /\ Callee.type = "NativeFunc" /\ Callee.v = "yield"

\* C24: whenever a coroutine yields or its body returns, the frame that
\* becomes current is the frame that executed the most recent `call` on that
\* coroutine, also when that call came from another frame than the first.
C24_YieldReturnsToLastCaller ==
    [][LeavesCoroutine => CurrentFrame' = LastCaller(CurrentFrame)]_vars

\* The next step is `call` or `done?` on a coroutine whose Frame field is
\* set: the native reads *(Co->Frame->CodePtr - 2).
ReadsCoroutineFrame ==
    /\ CanFetch
    /\ Instr.op = "FuncCall"
    /\ Instr.arg >= 1
    /\ Callee.type = "NativeFunc"
    /\ Callee.v \in {"call", "done?"}
    /\ CallArgs[1].type = "Coroutine"
    /\ Coroutines[CallArgs[1].v].Frame # 0

\* C25: no use of a destroyed frame.  The frame the interpreter loop runs
\* has not been deleted by Return; when the next instruction walks the Parent
\* chain (LoadSymbol, Set) every frame of the chain exists; when it is `call`
\* or `done?` on a coroutine whose Frame field is set, that frame exists.
C25_NoDestroyedFrameUse ==
    /\ (Running /\ CurrentFrame # 0) => Cur.alive
    /\ (CanFetch /\ Instr.op \in {"LoadSymbol", "Set"}) =>
          \A f \in 1..Len(Frames) : OnChain(f, CurrentFrame) => Frames[f].alive
    /\ ReadsCoroutineFrame => Frames[Coroutines[CallArgs[1].v].Frame].alive

\* C26: operand-stack bounds.  In every state 0 <= StackTop <= MaxVars, the
\* length of the Stack array: no push has written at an index at or beyond
\* the array's capacity.
C26_StackWithinCapacity == StackTop \in 0..MaxVars

\* The pool objects that a live value slot references: the operand stack S,
\* the variables of the frames that exist, the globals.
Referenced(S) ==
    {p \in 1..Len(StringPool.Next) :
        \/ \E i \in 1..Len(S) : S[i].type = "String" /\ S[i].v = 0 - p
        \/ \E f \in 1..Len(Frames) : \E v \in VarIds :
              /\ Frames[f].alive
              /\ Frames[f].Vars[v].type = "String"
              /\ Frames[f].Vars[v].v = 0 - p
        \/ \E n \in DOMAIN Globals : Globals[n].type = "String" /\ Globals[n].v = 0 - p}

RECURSIVE ListFrom(_, _, _)
\* The entries met from entry e on along Next, at most n of them.
ListFrom(Pool, e, n) ==
    IF e = 0 \/ n = 0 THEN <<>> ELSE <<e>> \o ListFrom(Pool, Pool.Next[e], n - 1)

\* C27: pool exclusivity.  A step in which `read` gets an object from the
\* pool gets one that no live value slot (stack, frame variable, global)
\* references; after every step each object is in the free list at most once
\* and no freed object is still in the list from First.
C27_PoolExclusive ==
    [][/\ (CanFetch /\ Instr.op = "FuncCall" /\ Callee.type = "NativeFunc"
              /\ Callee.v = "read" /\ status' = "running") =>
             (0 - PopValue(Stack').v) \notin Referenced(Rest)
       /\ LET n == Len(StringPool'.Next) + 1
              free == ListFrom(StringPool', StringPool'.FirstFree, n)
              live == ListFrom(StringPool', StringPool'.First, n)
          IN  /\ \A i, j \in 1..Len(free) : free[i] = free[j] => i = j
              /\ \A i \in 1..Len(free) : \A j \in 1..Len(live) : free[i] # live[j]
      ]_vars

====
